---- MODULE Spec2Model ----
(***************************************************************************)
(* BinanceWatch: the incremental synchronisation engine of BinanceManager  *)
(* and the storage contract of DataBase / BinanceDataBase it relies on.    *)
(*                                                                         *)
(* The module holds several specifications over one set of variables, one  *)
(* per part of the engine:                                                 *)
(*   SpecGuard    BinanceManager._call_binance_client (rate-limit guard)   *)
(*   SpecTrades   update_spot_symbol_trades / update_margin_symbol_trades   *)
(*   SpecTradeBatches  the same, the source listing a batch in any order   *)
(*   SpecDust     update_spot_dusts                                        *)
(*   SpecCursors  the writes of DataBase and the resume cursors            *)
(*   SpecWindows  update_spot_deposits / _withdraws / _dividends           *)
(*   SpecWindowsAnyInput  the same, for any day_jump and limit             *)
(*   SpecPages    the syncs of margin loans, repays and interests          *)
(*   SpecHistories    the syncs of universal transfers and of lending      *)
(*   SpecPageCursors  SpecPages and SpecHistories, one or the other        *)
(*   SpecRows     DataBase.add_row / update_row, column by column          *)
(*   SpecIsolatedTransfers  update_isolated_symbol_transfers                *)
(*   SpecGuardedSyncs  the guard alone or under the trade syncs            *)
(*   SpecSyncLoops     the sync loops together: trades, time windows,      *)
(*                     page cursors, isolated transfers                    *)
(*   SpecCreate   DataBase.get_create_cmd / create_table                   *)
(*   SpecTables   DataBase.add_row / add_rows / get_row_by_key on the      *)
(*                tables of test_DataBase.py, value by value               *)
(*   SpecQueries  DataBase.get_conditions_rows on the same tables          *)
(*   SpecAllTrades    update_all_spot_trades, update_all_cross_margin_     *)
(*                    trades and update_isolated_margin_trades             *)
(*   SpecStatusPages  the lending syncs, records of any status             *)
(*   SpecGuardedRun   the trade sync, guarded page call after page call    *)
(*   SpecIsolatedMargin   update_isolated_margin                           *)
(*                                                                         *)
(* Time is counted in milliseconds from 2017-01-01 00:00 UTC, the default  *)
(* of every time cursor; a day and the age of the archive are shortened so *)
(* that the timestamps stay small.                                         *)
(*                                                                         *)
(* The Store is the sqlite database behind one connection: the rows that   *)
(* are committed, the rows inserted in the open transaction (visible to    *)
(* queries through the connection, lost when the process ends before a     *)
(* commit) and the tables that exist.                                      *)
(***************************************************************************)
EXTENDS Integers, Sequences, FiniteSets, Bags, TLC

VARIABLES
    script,      \* SpecGuard: what the remote operation answers, invocation by invocation
    outcome,     \* SpecGuard: how the guarded call ended, with the events it went through
    db,          \* the Store: [committed, pending, tables]
    remote,      \* the records the Remote Activity Source holds
    run,         \* the sync operation in progress and its local variables
    obs          \* what was observed of the runs so far (read by the claims only)

vars == <<script, outcome, db, remote, run, obs>>

(***************************************************************************)
(* Rate-limit guard                                                        *)
(***************************************************************************)

\* BinanceAPIException.code of a breach of the API rate limits
RATE_LIMIT_CODE == -1003

\* HTTP status of a rate-limit error that is a ban
BAN_STATUS == 418

\* BinanceAPIException.code of a pair that was never used
UNKNOWN_PAIR_CODE == -11001

\* number of remote answers a script fixes: one more than the guard can consume
ScriptLen == 4

\* One answer of the remote operation: a result, or a BinanceAPIException
OkAnswer == [ok |-> TRUE, code |-> 0, status |-> 200]

ApiError(code, status) == [ok |-> FALSE, code |-> code, status |-> status]

Answers ==
    {OkAnswer} \cup
    {ApiError(c, s) : c \in {RATE_LIMIT_CODE, UNKNOWN_PAIR_CODE}, s \in {BAN_STATUS, 429}}

RECURSIVE SeqsOfLen(_, _)
SeqsOfLen(S, n) ==
    IF n = 0 THEN {<<>>}
    ELSE {<<x>> \o s : x \in S, s \in SeqsOfLen(S, n - 1)}

Scripts == SeqsOfLen(Answers, ScriptLen)

NoError == ApiError(0, 0)

\* the retry bound off by one
API_MAX_RETRY_plus_one == 3 + 1

\* BinanceManager.API_MAX_RETRY
API_MAX_RETRY == 3

\* the guard with the ban test after the sleep: a ban is slept on, then re-raised
RECURSIVE call_sleeping_on_ban(_, _)
call_sleeping_on_ban(answers, retry_count) ==
    IF retry_count >= API_MAX_RETRY
    THEN [kind |-> "RuntimeError", err |-> ApiError(0, 0), events |-> <<>>]
    ELSE LET a == Head(answers) IN
         IF a.ok
         THEN [kind |-> "return", err |-> ApiError(0, 0), events |-> <<"invoke">>]
         ELSE IF a.code = RATE_LIMIT_CODE
              THEN IF a.status = BAN_STATUS
                   THEN [kind |-> "BinanceAPIException", err |-> a,
                         events |-> <<"invoke", "sleep">>]
                   ELSE LET r == call_sleeping_on_ban(Tail(answers), retry_count + 1)
                        IN  [r EXCEPT !.events = <<"invoke", "sleep">> \o @]
              ELSE [kind |-> "BinanceAPIException", err |-> a, events |-> <<"invoke">>]

\* the guard without the test of err.code: every BinanceAPIException is retried
RECURSIVE call_retrying_any_error(_, _)
call_retrying_any_error(answers, retry_count) ==
    IF retry_count >= API_MAX_RETRY
    THEN [kind |-> "RuntimeError", err |-> ApiError(0, 0), events |-> <<>>]
    ELSE LET a == Head(answers) IN
         IF a.ok
         THEN [kind |-> "return", err |-> ApiError(0, 0), events |-> <<"invoke">>]
         ELSE IF a.status = BAN_STATUS /\ a.code = RATE_LIMIT_CODE
              THEN [kind |-> "BinanceAPIException", err |-> a, events |-> <<"invoke">>]
              ELSE LET r == call_retrying_any_error(Tail(answers), retry_count + 1)
                   IN  [r EXCEPT !.events = <<"invoke", "sleep">> \o @]

\* _call_binance_client(method_name, params, retry_count): the remote operation is
\* the script, consumed one answer per invocation.  The value is how the call ends
\* (kind: "return", "RuntimeError" or "BinanceAPIException", with the error raised)
\* and the events it went through, in order ("invoke" and "sleep").
RECURSIVE _call_binance_client(_, _)
_call_binance_client(answers, retry_count) ==
    IF retry_count >= API_MAX_RETRY
    THEN [kind |-> "RuntimeError", err |-> NoError, events |-> <<>>]
    ELSE LET a == Head(answers) IN
         IF a.ok
         THEN [kind |-> "return", err |-> NoError, events |-> <<"invoke">>]
         ELSE IF a.code = RATE_LIMIT_CODE
              THEN IF a.status = BAN_STATUS
                   THEN [kind |-> "BinanceAPIException", err |-> a, events |-> <<"invoke">>]
                   ELSE LET r == _call_binance_client(Tail(answers), retry_count + 1)
                        IN  [r EXCEPT !.events = <<"invoke", "sleep">> \o @]
              ELSE [kind |-> "BinanceAPIException", err |-> a, events |-> <<"invoke">>]

Count(events, e) == Cardinality({i \in DOMAIN events : events[i] = e})

Invocations(r) == Count(r.events, "invoke")

Sleeps(r) == Count(r.events, "sleep")

NotCalled == [kind |-> "none", err |-> NoError, events |-> <<>>]

\* a top-level guarded call: retry_count takes its default, 0
GuardedCall ==
    /\ outcome = NotCalled
    /\ \E s \in Scripts :
        /\ script' = s
        /\ outcome' = _call_binance_client(s, 0)
    /\ UNCHANGED <<db, remote, run, obs>>

\* the caller goes on (or unwinds) and the next guarded call starts afresh
GuardedCallOver ==
    /\ outcome # NotCalled
    /\ script' = <<>>
    /\ outcome' = NotCalled
    /\ UNCHANGED <<db, remote, run, obs>>

InitGuard ==
    /\ script = <<>>
    /\ outcome = NotCalled
    /\ db = <<>>
    /\ remote = <<>>
    /\ run = <<>>
    /\ obs = <<>>

NextGuard == GuardedCall \/ GuardedCallOver

SpecGuard == InitGuard /\ [][NextGuard]_vars

(***************************************************************************)
(* Claims about the guard (checked under SpecGuard)                        *)
(***************************************************************************)

\* a rate-limit error that is not a ban: code -1003, HTTP status other than 418
IsPlainRateLimit(a) == ~a.ok /\ a.code = -1003 /\ a.status # 418

IsBan(a) == ~a.ok /\ a.code = -1003 /\ a.status = 418

IsOtherError(a) == ~a.ok /\ a.code # -1003

Called == script # <<>>

AlwaysRateLimited == Called /\ \A i \in DOMAIN script : IsPlainRateLimit(script[i])

\* the first k answers are rate-limit errors that are not bans
RateLimitedFirst(k) == \A i \in 1..k : IsPlainRateLimit(script[i])

\* C3 as stated: a remote operation that always fails with a non-ban rate-limit
\* error is re-invoked 3 times after its first failed invocation (4 invocations),
\* and then the RuntimeError is raised.
C3_ThreeReinvocations ==
    AlwaysRateLimited =>
        /\ outcome.kind = "RuntimeError"
        /\ Invocations(outcome) = 1 + 3

\* C3 amended: a remote operation that always fails with a non-ban rate-limit error
\* is invoked 3 times in all (2 re-invocations after the first failure), each
\* failure is followed by a sleep (3 sleeps), and then the RuntimeError is raised.
C3_ThreeInvocationsThenFatal ==
    AlwaysRateLimited =>
        /\ outcome.kind = "RuntimeError"
        /\ outcome.events = <<"invoke", "sleep", "invoke", "sleep", "invoke", "sleep">>
        /\ Invocations(outcome) = 3
        /\ Sleeps(outcome) = 3

C3_Witness == AlwaysRateLimited /\ outcome.kind = "RuntimeError"

\* C5: a ban (code -1003, status 418) met after k < 3 plain rate-limit failures is
\* re-raised as it is: no sleep follows it, the remote operation is not invoked
\* again, and the error is not turned into the RuntimeError.
C5_BanReraisedAtOnce ==
    Called =>
        \A k \in 0..2 :
            (RateLimitedFirst(k) /\ IsBan(script[k + 1])) =>
                /\ outcome.kind = "BinanceAPIException"
                /\ outcome.err = script[k + 1]
                /\ Invocations(outcome) = k + 1
                /\ Sleeps(outcome) = k
                /\ outcome.events[Len(outcome.events)] = "invoke"

C5_Witness ==
    /\ Called
    /\ RateLimitedFirst(2)
    /\ IsBan(script[3])
    /\ outcome.kind = "BinanceAPIException"

\* C6: an error that is not a rate-limit error (code other than -1003) leaves the
\* guard on its first occurrence, with no sleep and no re-invocation after it, also
\* when it occurs on a retry that follows k plain rate-limit failures.
C6_OtherErrorPropagates ==
    Called =>
        \A k \in 0..2 :
            (RateLimitedFirst(k) /\ IsOtherError(script[k + 1])) =>
                /\ outcome.kind = "BinanceAPIException"
                /\ outcome.err = script[k + 1]
                /\ Invocations(outcome) = k + 1
                /\ Sleeps(outcome) = k
                /\ outcome.events[Len(outcome.events)] = "invoke"

C6_Witness ==
    /\ Called
    /\ RateLimitedFirst(1)
    /\ IsOtherError(script[2])
    /\ outcome.kind = "BinanceAPIException"
    /\ Sleeps(outcome) = 1

(***************************************************************************)
(* The Store: DataBase over one sqlite connection                          *)
(***************************************************************************)

\* a stored row: its table, the columns that scope a Stream Key, its identifier
\* (the first column: the primary key when the table has one) and its timestamp;
\* the columns the sync never reads back (amounts, fees, ...) are left out
Row(tbl, scope, id, time) == [tbl |-> tbl, scope |-> scope, id |-> id, time |-> time]

\* DataBase.__init__ on a new file: no table, nothing stored
EmptyStore == [committed |-> EmptyBag, pending |-> EmptyBag, tables |-> {}]

\* what a query through the connection sees: committed rows and the rows of the
\* open transaction
Visible(d) == d.committed (+) d.pending

\* a commit that leaves the pending rows pending
keep_pending(d) == d

\* DataBase.commit
commit(d) == [d EXCEPT !.committed = @ (+) d.pending, !.pending = EmptyBag]

\* DataBase.create_table: CREATE TABLE, then commit
create_table(d, tbl) == commit([d EXCEPT !.tables = @ \cup {tbl}])

\* the table is committed and kept with its rows
keep_table(d, tbl) == commit(d)

\* DataBase.drop_all_tables in the place of drop_table
drop_all_tables(d, tbl) == EmptyStore

\* DataBase.drop_table: DROP TABLE IF EXISTS, then commit
drop_table(d, tbl) ==
    LET all == Visible(d)
    IN  [committed |-> [r \in {x \in DOMAIN all : x.tbl # tbl} |-> all[r]],
         pending |-> EmptyBag,
         tables |-> d.tables \ {tbl}]

\* the tables of tables.py declared with a primary key
PrimaryKeyTables ==
    {"spot_deposit", "spot_withdraw", "spot_dividend_table", "lending_purchase_history",
     "cross_margin_loan_table", "cross_margin_repay_table", "universal_transfer_table"}

\* the isolated-margin tables (tables.ISOLATED_MARGIN_*_TABLE) are declared like
\* their cross-margin counterparts: loans, repays and transfers with a primary key
IsolatedKeyTables ==
    {"isolated_margin_loan_table", "isolated_margin_repay_table",
     "isolated_margin_transfer_table"}

\* the rows of table tbl a query sees
TableRows(d, tbl) == {r \in DOMAIN Visible(d) : r.tbl = tbl}

\* DataBase.add_row(table, row, auto_commit, update_if_exists=False): the Store
\* afterwards and the exception raised ("none" when it returns)
add_row(d, row, auto_commit) ==
    LET d1 == IF row.tbl \in d.tables THEN d ELSE create_table(d, row.tbl)
        occupied == /\ row.tbl \in PrimaryKeyTables \cup IsolatedKeyTables
                    /\ \E r \in TableRows(d1, row.tbl) : r.id = row.id
        d2 == [d1 EXCEPT !.pending = @ (+) SetToBag({row})]
    IN  IF occupied
        THEN [db |-> d1, raised |-> "IntegrityError"]
        ELSE [db |-> IF auto_commit THEN commit(d2) ELSE d2, raised |-> "none"]

Max(S) == CHOOSE x \in S : \A y \in S : y <= x

\* DataBase._fetch_rows for a selection MAX(column) over the rows whose column
\* holds `values`: no row at all when the table does not exist (the
\* sqlite3.OperationalError is caught), else one row, which carries the selected
\* values (MAX over none of them is NULL)
_fetch_rows(d, tbl, values) == IF tbl \notin d.tables THEN <<>> ELSE <<values>>

\* a missing table answered by another value than the default
result_or_default_of_table(result, default) ==
    IF result = <<>> THEN default - 1
    ELSE IF result[1] = {} THEN default
    ELSE Max(result[1])

\* result[0][0] of a get_last_* or get_max_* method: the default on the IndexError
\* of an empty result and on None, the maximum otherwise
result_or_default(result, default) ==
    IF result = <<>> THEN default
    ELSE IF result[1] = {} THEN default
    ELSE Max(result[1])

Min2(a, b) == IF a <= b THEN a ELSE b

Max2(a, b) == IF a >= b THEN a ELSE b

\* the elements of a finite set of integers in ascending order
RECURSIVE Ascending(_)
Ascending(S) ==
    IF S = {} THEN <<>>
    ELSE LET m == CHOOSE x \in S : \A y \in S : x <= y
         IN  <<m>> \o Ascending(S \ {m})

FirstN(seq, n) == SubSeq(seq, 1, Min2(n, Len(seq)))

(***************************************************************************)
(* Id-windowed streams: spot and margin trades                             *)
(***************************************************************************)

\* largest trade id the source assigns in the model
MaxTradeId == 1

\* largest limit a caller passes in the model
MaxLimit == 2

\* the cap of `limit` (update_spot_symbol_trades, update_margin_symbol_trades)
TRADE_LIMIT_CAP == 1000

\* the trading pairs synchronised: one Stream Key per (trade type, asset, ref_asset)
TradeLanes ==
    {[trade_type |-> "spot", asset |-> "BTC", ref_asset |-> "USDT"],
     [trade_type |-> "spot", asset |-> "ETH", ref_asset |-> "USDT"]}

\* the table of a trade type (add_trade, get_max_trade_id)
TradeTable(trade_type) ==
    CASE trade_type = "spot" -> "spot_trade"
      [] trade_type = "cross_margin" -> "cross_margin_trade"
      [] trade_type = "isolated_margin" -> "isolated_margin_trade"

\* the cursor of every lane is read from the one table of the trade type, whatever
\* the pair
max_trade_id_of_table(d, asset, ref_asset, trade_type) ==
    LET ids == {r.id : r \in TableRows(d, TradeTable(trade_type))}
    IN  IF ids = {} THEN -1 ELSE Max(ids)

\* BinanceDataBase.get_max_trade_id: MAX(tradeId) over the rows of the pair, -1
\* when there is none (or no table)
get_max_trade_id(d, asset, ref_asset, trade_type) ==
    LET ids == {r.id : r \in {x \in TableRows(d, TradeTable(trade_type)) :
                                  x.scope = <<asset, ref_asset>>}}
    IN  result_or_default(_fetch_rows(d, TradeTable(trade_type), ids), -1)

\* BinanceDataBase.add_trade(..., auto_commit=False)
add_trade(d, trade_type, trade_id, asset, ref_asset) ==
    add_row(d, Row(TradeTable(trade_type), <<asset, ref_asset>>, trade_id, 0), FALSE)

\* client.get_my_trades / client.get_margin_trades(symbol, fromId, limit): the
\* source answers with the `limit` smallest trade ids >= fromId of the pair, in
\* ascending order
get_trades_of_source(ids, fromId, limit) ==
    FirstN(Ascending({i \in ids : i >= fromId}), limit)

\* a sequence read from its end
Backwards(seq) == [i \in 1..Len(seq) |-> seq[Len(seq) + 1 - i]]

\* the batch as a source may list it that does not keep the order of the ids: by
\* ascending or by descending trade id
TradeAnswers(ids, fromId, limit) ==
    {get_trades_of_source(ids, fromId, limit),
     Backwards(get_trades_of_source(ids, fromId, limit))}

\* the fetch starts again from the last stored id
from_last_trade_id(last_trade_id) == last_trade_id

\* 'fromId': last_trade_id + 1
from_id(last_trade_id) == last_trade_id + 1

\* last_trade_id is the id of the trade at hand
id_of_last_trade(last_trade_id, trade_id) == trade_id

\* last_trade_id = max(last_trade_id, int(trade['id']))
max_trade_id(last_trade_id, trade_id) == Max2(last_trade_id, trade_id)

\* no sync operation in progress
Idle ==
    [op |-> "none", pc |-> "idle", key |-> <<>>, limit |-> 0, last_trade_id |-> 0,
     rows |-> <<>>, done |-> 0]

\* how a guarded call can end, over every behaviour of the remote operation
GuardEndings == {[kind |-> r.kind, err |-> r.err] : r \in {_call_binance_client(s, 0) : s \in Scripts}}

TradeOps == {"update_spot_symbol_trades", "update_margin_symbol_trades"}

\* what the claims read of the trade runs: the largest id the source returned for
\* each lane, whether the last run of the lane ran to its end with no remote trade
\* added since its last fetch (quiet: none since the last fetch of the run in
\* progress), and how the last run ended
ObsTrades0 ==
    [returned |-> [l \in TradeLanes |-> -1],
     settled |-> [l \in TradeLanes |-> FALSE],
     quiet |-> FALSE,
     ended |-> "none"]

\* update_spot_symbol_trades / update_margin_symbol_trades, up to the loop: the
\* limit is capped and the cursor is read from the Store
update_symbol_trades(l, limit) ==
    /\ run = Idle
    /\ run' = [Idle EXCEPT
                 !.op = IF l.trade_type = "spot" THEN "update_spot_symbol_trades"
                        ELSE "update_margin_symbol_trades",
                 !.pc = "fetch",
                 !.key = l,
                 !.limit = Min2(TRADE_LIMIT_CAP, limit),
                 !.last_trade_id = get_max_trade_id(db, l.asset, l.ref_asset, l.trade_type)]
    /\ obs' = [obs EXCEPT !.ended = "running", !.quiet = FALSE]
    /\ UNCHANGED <<db, remote, script, outcome>>

\* the guarded fetch of one batch, from fromId = last_trade_id + 1; an exception of
\* the guard leaves the operation
fetch_trades ==
    /\ run.op \in TradeOps /\ run.pc = "fetch"
    /\ \E g \in GuardEndings :
        IF g.kind = "return"
        THEN LET new_trades == get_trades_of_source(remote[run.key],
                                                    from_id(run.last_trade_id), run.limit)
             IN  /\ run' = [run EXCEPT !.rows = new_trades, !.done = 0, !.pc = "insert"]
                 /\ obs' = [obs EXCEPT
                              !.returned[run.key] =
                                  Max({@} \cup {new_trades[i] : i \in DOMAIN new_trades}),
                              !.quiet = TRUE]
        ELSE /\ run' = Idle
             /\ obs' = [obs EXCEPT !.ended = "raised", !.quiet = FALSE]
    /\ UNCHANGED <<db, remote, script, outcome>>

\* one turn of `for trade in new_trades`: the row is inserted without commit and
\* last_trade_id follows
insert_trade ==
    /\ run.op \in TradeOps /\ run.pc = "insert" /\ run.done < Len(run.rows)
    /\ LET trade_id == run.rows[run.done + 1]
           l == run.key
       IN  /\ db' = add_trade(db, l.trade_type, trade_id, l.asset, l.ref_asset).db
           /\ run' = [run EXCEPT !.done = @ + 1,
                                 !.last_trade_id = max_trade_id(@, trade_id)]
    /\ UNCHANGED <<remote, obs, script, outcome>>

\* after the batch: commit when it held a trade, leave the loop when it was shorter
\* than limit
end_of_trade_batch ==
    /\ run.op \in TradeOps /\ run.pc = "insert" /\ run.done = Len(run.rows)
    /\ db' = IF Len(run.rows) > 0 THEN commit(db) ELSE db
    /\ IF Len(run.rows) < run.limit
       THEN /\ run' = Idle
            /\ obs' = [obs EXCEPT !.ended = "completed", !.settled[run.key] = obs.quiet,
                                  !.quiet = FALSE]
       ELSE /\ run' = [run EXCEPT !.pc = "fetch", !.rows = <<>>, !.done = 0]
            /\ obs' = obs
    /\ UNCHANGED <<remote, script, outcome>>

\* the account trades on the pair: the source assigns a larger id
new_remote_trade(l) ==
    /\ \E i \in 0..MaxTradeId :
        /\ \A j \in remote[l] : j < i
        /\ remote' = [remote EXCEPT ![l] = @ \cup {i}]
    /\ obs' = [obs EXCEPT !.settled[l] = FALSE,
                          !.quiet = IF run.key = l THEN FALSE ELSE @]
    /\ UNCHANGED <<db, run, script, outcome>>

\* an exception reaches the caller in the middle of an operation (KeyboardInterrupt,
\* an error of a conversion): the manager and its connection live on, and the rows
\* inserted without commit stay in the open transaction
interrupt ==
    /\ run # Idle
    /\ run' = Idle
    /\ obs' = [obs EXCEPT !.ended = "interrupted", !.quiet = FALSE]
    /\ UNCHANGED <<db, remote, script, outcome>>

\* the process ends (at its end, or killed) and a new one opens the database: the
\* open transaction is rolled back
process_exit ==
    /\ db' = [db EXCEPT !.pending = EmptyBag]
    /\ run' = Idle
    /\ obs' = [obs EXCEPT
                 !.ended = IF run = Idle THEN @ ELSE "killed",
                 !.quiet = FALSE,
                 !.settled = [l \in TradeLanes |->
                                @[l] /\ \A r \in DOMAIN db.pending :
                                            ~(r.tbl = TradeTable(l.trade_type)
                                              /\ r.scope = <<l.asset, l.ref_asset>>)]]
    /\ UNCHANGED <<remote, script, outcome>>

InitTrades ==
    /\ script = <<>>
    /\ outcome = NotCalled
    /\ db = EmptyStore
    /\ remote = [l \in TradeLanes |-> {}]
    /\ run = Idle
    /\ obs = ObsTrades0

NextTrades ==
    \/ \E l \in TradeLanes, limit \in 1..MaxLimit : update_symbol_trades(l, limit)
    \/ fetch_trades
    \/ insert_trade
    \/ end_of_trade_batch
    \/ \E l \in TradeLanes : new_remote_trade(l)
    \/ interrupt
    \/ process_exit

SpecTrades == InitTrades /\ [][NextTrades]_vars

(***************************************************************************)
(* Claims about the trade sync (checked under SpecTrades)                  *)
(***************************************************************************)

LaneRows(bag, l) ==
    {r \in DOMAIN bag : r.tbl = TradeTable(l.trade_type) /\ r.scope = <<l.asset, l.ref_asset>>}

CommittedIds(l) == {r.id : r \in LaneRows(db.committed, l)}

NoIdCommittedTwice(l) == \A r \in LaneRows(db.committed, l) : db.committed[r] = 1

SecondRun == run.op \in TradeOps /\ obs.settled[run.key]

MaxDustId == 1

\* tables.SPOT_DUST_TABLE
SPOT_DUST_TABLE == "spot_dust_table"

\* BinanceDataBase.add_spot_dust(..., auto_commit=False)
add_spot_dust(d, tran_id) == add_row(d, Row(SPOT_DUST_TABLE, <<>>, tran_id, 0), FALSE)

\* what the claims read of the dust runs: the committed rows when the operation was
\* invoked, how the guarded call of the last run ended, how the run ended
ObsDust0 == [before |-> EmptyBag, call |-> "none", ended |-> "none"]

\* update_spot_dusts, up to the guarded call: the dust table is dropped
update_spot_dusts ==
    /\ run = Idle
    /\ db' = drop_table(db, SPOT_DUST_TABLE)
    /\ run' = [Idle EXCEPT !.op = "update_spot_dusts", !.pc = "fetch"]
    /\ obs' = [before |-> db.committed, call |-> "none", ended |-> "running"]
    /\ UNCHANGED <<remote, script, outcome>>

\* the guarded get_dust_log: the whole log, or the exception of the guard
fetch_dusts ==
    /\ run.op = "update_spot_dusts" /\ run.pc = "fetch"
    /\ \E g \in GuardEndings :
        IF g.kind = "return"
        THEN /\ run' = [run EXCEPT !.rows = Ascending(remote), !.done = 0, !.pc = "insert"]
             /\ obs' = [obs EXCEPT !.call = g.kind]
        ELSE /\ run' = Idle
             /\ obs' = [obs EXCEPT !.call = g.kind, !.ended = "raised"]
    /\ UNCHANGED <<db, remote, script, outcome>>

\* one turn of the loops over the log: the row is inserted without commit
insert_dust ==
    /\ run.op = "update_spot_dusts" /\ run.pc = "insert" /\ run.done < Len(run.rows)
    /\ db' = add_spot_dust(db, run.rows[run.done + 1]).db
    /\ run' = [run EXCEPT !.done = @ + 1]
    /\ UNCHANGED <<remote, obs, script, outcome>>

\* after the loops: commit
commit_dusts ==
    /\ run.op = "update_spot_dusts" /\ run.pc = "insert" /\ run.done = Len(run.rows)
    /\ db' = commit(db)
    /\ run' = Idle
    /\ obs' = [obs EXCEPT !.ended = "completed"]
    /\ UNCHANGED <<remote, script, outcome>>

\* the account converts dust: the log grows
new_remote_dust ==
    /\ \E i \in (0..MaxDustId) \ remote : remote' = remote \cup {i}
    /\ UNCHANGED <<db, run, obs, script, outcome>>

\* the log of the source, which lists the latest conversions only, loses one
old_remote_dust ==
    /\ \E i \in remote : remote' = remote \ {i}
    /\ UNCHANGED <<db, run, obs, script, outcome>>

\* an exception reaches the caller in the middle of update_spot_dusts
interrupt_dusts ==
    /\ run.op = "update_spot_dusts"
    /\ run' = Idle
    /\ obs' = [obs EXCEPT !.ended = "interrupted"]
    /\ UNCHANGED <<db, remote, script, outcome>>

\* the process ends and a new one opens the database
exit_dusts ==
    /\ db' = [db EXCEPT !.pending = EmptyBag]
    /\ run' = Idle
    /\ obs' = [obs EXCEPT !.ended = IF run = Idle THEN @ ELSE "killed"]
    /\ UNCHANGED <<remote, script, outcome>>

InitDust ==
    /\ script = <<>>
    /\ outcome = NotCalled
    /\ db = EmptyStore
    /\ remote = {}
    /\ run = Idle
    /\ obs = ObsDust0

NextDust ==
    \/ update_spot_dusts
    \/ fetch_dusts
    \/ insert_dust
    \/ commit_dusts
    \/ new_remote_dust
    \/ old_remote_dust
    \/ interrupt_dusts
    \/ exit_dusts

SpecDust == InitDust /\ [][NextDust]_vars

(***************************************************************************)
(* Claims about the fatal rate-limit error (checked under SpecDust)        *)
(***************************************************************************)

\* C4: when the first guarded remote call of update_spot_dusts ends in the fatal
\* rate-limit error, the committed Store after the abort is the committed Store
\* before the operation was invoked.
C4_NoWriteOnFatalRateLimit ==
    (run = Idle /\ obs.ended = "raised" /\ obs.call = "RuntimeError") =>
        db.committed = obs.before

\* C14: when update_spot_dusts completes, the rows of the dust table, all
\* committed, are exactly the records its fetch of the log returned, one row each:
\* no row of an earlier run is left and nothing is stored twice.
C14_DustTableIsLastFetch ==
    [][(/\ run.op = "update_spot_dusts" /\ run.pc = "insert"
        /\ run' = Idle /\ obs'.ended = "completed") =>
           /\ db'.pending = EmptyBag
           /\ \A r \in DOMAIN db'.committed :
                  CopiesIn(r, db'.committed) > 0 =>
                      \E i \in 1..Len(run.rows) : r = Row(SPOT_DUST_TABLE, <<>>, run.rows[i], 0)
           /\ \A i \in 1..Len(run.rows) :
                  CopiesIn(Row(SPOT_DUST_TABLE, <<>>, run.rows[i], 0), db'.committed) = 1]_vars

\* a run has completed and stored rows, and a row committed when it was invoked is
\* gone
C14_Witness ==
    /\ run = Idle /\ obs.ended = "completed"
    /\ BagCardinality(db.committed) > 0
    /\ \E r \in DOMAIN obs.before :
           CopiesIn(r, obs.before) > 0 /\ CopiesIn(r, db.committed) = 0

(***************************************************************************)
(* Resume cursors of the time-based streams: BinanceDataBase get_last_X    *)
(***************************************************************************)

\* time is counted in milliseconds from 2017-01-01 00:00 UTC, so that the default
\* of every get_last_*_time, datetime_to_millistamp(datetime(2017, 1, 1)), is 0
DefaultTime == 0

\* Python's None, for an optional argument left out
None == "None"

\* MAX(<time column>) of a selection, the default when it is empty
MaxTimeOf(rows) == IF rows = {} THEN DefaultTime ELSE Max({r.time : r \in rows})

\* the body shared by the get_last_*_time methods: MAX(<time column>) over the
\* selected rows of table tbl, the default when there is no result
get_last_time(d, tbl, rows) ==
    result_or_default(_fetch_rows(d, tbl, {r.time : r \in rows}), DefaultTime)

\* the margin tables: the cross table of a kind, or the isolated one, whose rows
\* carry the symbol; the scope of a margin row is <<symbol, asset>>, the symbol
\* being None in the cross tables
MarginTable(kind, isolated_symbol) ==
    IF isolated_symbol = None
    THEN CASE kind = "loan" -> "cross_margin_loan_table"
           [] kind = "repay" -> "cross_margin_repay_table"
           [] kind = "interest" -> "cross_margin_interest_table"
    ELSE CASE kind = "loan" -> "isolated_margin_loan_table"
           [] kind = "repay" -> "isolated_margin_repay_table"
           [] kind = "interest" -> "isolated_margin_interest_table"

\* the rows of a margin table selected by the conditions on symbol and asset
MarginRows(d, kind, asset, isolated_symbol) ==
    {r \in TableRows(d, MarginTable(kind, isolated_symbol)) :
        /\ isolated_symbol # None => r.scope[1] = isolated_symbol
        /\ asset # None => r.scope[2] = asset}

get_last_universal_transfer_time(d, transfer_type) ==
    get_last_time(d, "universal_transfer_table",
                  {r \in TableRows(d, "universal_transfer_table") : r.scope = <<transfer_type>>})

get_last_isolated_transfer_time(d, isolated_symbol) ==
    get_last_time(d, "isolated_margin_transfer_table",
                  {r \in TableRows(d, "isolated_margin_transfer_table") :
                      r.scope = <<isolated_symbol>>})

get_last_margin_interest_time(d, asset, isolated_symbol) ==
    get_last_time(d, MarginTable("interest", isolated_symbol),
                  MarginRows(d, "interest", asset, isolated_symbol))

get_last_repay_time(d, asset, isolated_symbol) ==
    get_last_time(d, MarginTable("repay", isolated_symbol),
                  MarginRows(d, "repay", asset, isolated_symbol))

get_last_loan_time(d, asset, isolated_symbol) ==
    get_last_time(d, MarginTable("loan", isolated_symbol),
                  MarginRows(d, "loan", asset, isolated_symbol))

\* the rows of a lending table, of one lending type when it is given
LendingRows(d, tbl, lending_type) ==
    {r \in TableRows(d, tbl) : lending_type # None => r.scope = <<lending_type>>}

get_last_lending_redemption_time(d, lending_type) ==
    get_last_time(d, "lending_redemption_history", LendingRows(d, "lending_redemption_history", lending_type))

get_last_lending_purchase_time(d, lending_type) ==
    get_last_time(d, "lending_purchase_history", LendingRows(d, "lending_purchase_history", lending_type))

get_last_lending_interest_time(d, lending_type) ==
    get_last_time(d, "lending_interest_table", LendingRows(d, "lending_interest_table", lending_type))

get_last_spot_dividend_time(d) == get_last_time(d, "spot_dividend_table", TableRows(d, "spot_dividend_table"))

get_last_spot_withdraw_time(d) == get_last_time(d, "spot_withdraw", TableRows(d, "spot_withdraw"))

get_last_spot_deposit_time(d) == get_last_time(d, "spot_deposit", TableRows(d, "spot_deposit"))

(***************************************************************************)
(* The Store under any sequence of writes of the sync operation of one      *)
(* stream table (held in `remote`) and of update_spot_dusts                *)
(***************************************************************************)

\* most rows the Store holds in the model
MaxRows == 2

\* the scopes given to the rows of a table in the model: two Stream Keys for a
\* table shared by several keys, one otherwise
ScopesOf(tbl) ==
    CASE tbl \in {"spot_trade", "cross_margin_trade"} -> {<<"BTC", "USDT">>, <<"ETH", "USDT">>}
      [] tbl = "universal_transfer_table" -> {<<"MAIN_MARGIN">>, <<"MARGIN_MAIN">>}
      [] tbl = "isolated_margin_transfer_table" -> {<<"BTCUSDT">>, <<"ETHUSDT">>}
      [] tbl \in {"cross_margin_loan_table", "cross_margin_repay_table",
                  "cross_margin_interest_table"} -> {<<None, "BTC">>, <<None, "USDT">>}
      [] tbl \in {"isolated_margin_loan_table", "isolated_margin_repay_table",
                  "isolated_margin_interest_table"} ->
             {<<"BTCUSDT", "BTC">>, <<"ETHUSDT", "BTC">>}
      [] tbl \in {"lending_redemption_history", "lending_purchase_history",
                  "lending_interest_table"} -> {<<"DAILY">>, <<"ACTIVITY">>}
      [] OTHER -> {<<>>}

\* the tables of the incremental streams
IncrementalTables ==
    {"spot_trade", "cross_margin_trade", "universal_transfer_table",
     "isolated_margin_transfer_table", "cross_margin_loan_table",
     "cross_margin_repay_table", "cross_margin_interest_table",
     "isolated_margin_loan_table", "isolated_margin_repay_table",
     "isolated_margin_interest_table", "lending_redemption_history",
     "lending_purchase_history", "lending_interest_table", "spot_dividend_table",
     "spot_withdraw", "spot_deposit"}

\* the rows the sync operation of table tbl may insert in the model: a trade
\* carries one of two ids, and every row one of two timestamps
StoreRows(tbl) ==
    {Row(tbl, scope, id, time) :
        scope \in ScopesOf(tbl),
        id \in IF tbl \in {"spot_trade", "cross_margin_trade"} THEN {0, 1} ELSE {0},
        time \in {1000, 2000}}

\* every resume cursor of the incremental streams, evaluated on the Store
Cursors(d) ==
    [transfer |-> [t \in {"MAIN_MARGIN", "MARGIN_MAIN"} |->
                      get_last_universal_transfer_time(d, t)],
     isolated_transfer |-> [y \in {"BTCUSDT", "ETHUSDT"} |->
                               get_last_isolated_transfer_time(d, y)],
     interest |-> [y \in {None, "BTCUSDT", "ETHUSDT"} |->
                      get_last_margin_interest_time(d, None, y)],
     repay |-> [k \in {"BTC", "USDT"} \X {None, "BTCUSDT", "ETHUSDT"} |->
                   get_last_repay_time(d, k[1], k[2])],
     loan |-> [k \in {"BTC", "USDT"} \X {None, "BTCUSDT", "ETHUSDT"} |->
                  get_last_loan_time(d, k[1], k[2])],
     redemption |-> [t \in {None, "DAILY", "ACTIVITY"} |->
                        get_last_lending_redemption_time(d, t)],
     purchase |-> [t \in {None, "DAILY", "ACTIVITY"} |->
                      get_last_lending_purchase_time(d, t)],
     lending_interest |-> [t \in {None, "DAILY", "ACTIVITY"} |->
                              get_last_lending_interest_time(d, t)],
     dividend |-> get_last_spot_dividend_time(d),
     withdraw |-> get_last_spot_withdraw_time(d),
     deposit |-> get_last_spot_deposit_time(d),
     trade |-> [k \in {"BTC", "ETH"} \X {"spot", "cross_margin"} |->
                   get_max_trade_id(d, k[1], "USDT", k[2])]]

\* the sync operation of the stream table, or update_spot_dusts, inserts a row:
\* DataBase.add_row, by one of the add_* methods
store_add_row ==
    /\ \E row \in StoreRows(remote) \cup StoreRows(SPOT_DUST_TABLE), auto_commit \in BOOLEAN :
        /\ BagCardinality(Visible(db)) < MaxRows
        /\ db' = add_row(db, row, auto_commit).db
        /\ obs' = [last |-> "add_row", raised |-> add_row(db, row, auto_commit).raised]
    /\ UNCHANGED <<remote, run, script, outcome>>

\* a sync operation commits its page: DataBase.commit
store_commit ==
    /\ db' = commit(db)
    /\ obs' = [last |-> "commit", raised |-> "none"]
    /\ UNCHANGED <<remote, run, script, outcome>>

\* update_spot_dusts clears the dust table: DataBase.drop_table
store_drop_table ==
    /\ db' = drop_table(db, SPOT_DUST_TABLE)
    /\ obs' = [last |-> "drop_table", raised |-> "none"]
    /\ UNCHANGED <<remote, run, script, outcome>>

\* the process ends and a new one opens the database
store_exit ==
    /\ db' = [db EXCEPT !.pending = EmptyBag]
    /\ obs' = [last |-> "exit", raised |-> "none"]
    /\ UNCHANGED <<remote, run, script, outcome>>

InitCursors ==
    /\ script = <<>>
    /\ outcome = NotCalled
    /\ db = EmptyStore
    /\ remote \in IncrementalTables
    /\ run = Idle
    /\ obs = [last |-> "none", raised |-> "none"]

NextCursors ==
    \/ store_add_row
    \/ store_commit
    \/ store_drop_table
    \/ store_exit

SpecCursors == InitCursors /\ [][NextCursors]_vars

(***************************************************************************)
(* Claims about the cursors (checked under SpecCursors)                    *)
(***************************************************************************)

\* cursor values c1 are all at least the cursor values c0
CursorsAtLeast(c1, c0) ==
    /\ \A f \in {"transfer", "isolated_transfer", "interest", "repay", "loan",
                  "redemption", "purchase", "lending_interest", "trade"} :
           \A k \in DOMAIN c0[f] : c1[f][k] >= c0[f][k]
    /\ c1.dividend >= c0.dividend
    /\ c1.withdraw >= c0.withdraw
    /\ c1.deposit >= c0.deposit

\* C7: no write of a sync operation (an insert, accepted or rejected, a commit, the
\* clearing of the dust table) lowers the resume cursor of any incremental Stream
\* Key: evaluated after a run, completed or aborted, every cursor is at least its
\* value before the run.
C7_CursorsNeverDecrease ==
    [][obs'.last # "exit" => CursorsAtLeast(Cursors(db'), Cursors(db))]_vars

\* a cursor stands above its default after the dust table was cleared
C7_Witness ==
    /\ obs.last = "drop_table"
    /\ get_last_repay_time(db, "BTC", "BTCUSDT") > DefaultTime
    /\ get_last_repay_time(db, "BTC", "ETHUSDT") = DefaultTime

\* no row of table tbl the connection sees carries one of the scopes
NoRowOf(tbl, scopes) == \A r \in TableRows(db, tbl) : r.scope \notin scopes

\* C16: the cursor of a Stream Key of which the Store holds no row is the default,
\* 2017-01-01 for a time cursor and -1 for a trade id cursor (the first fromId is
\* then 0), whether the table of the stream does not exist or exists without a row
\* of that key.
C16_DefaultCursor ==
    LET c == Cursors(db)
        types(t) == IF t = None THEN {<<"DAILY">>, <<"ACTIVITY">>} ELSE {<<t>>}
    IN  /\ \A t \in DOMAIN c.transfer :
               NoRowOf("universal_transfer_table", {<<t>>}) => c.transfer[t] = DefaultTime
        /\ \A y \in DOMAIN c.isolated_transfer :
               NoRowOf("isolated_margin_transfer_table", {<<y>>}) =>
                   c.isolated_transfer[y] = DefaultTime
        /\ \A y \in DOMAIN c.interest :
               NoRowOf(MarginTable("interest", y), {<<y, "BTC">>, <<y, "USDT">>}) =>
                   c.interest[y] = DefaultTime
        /\ \A k \in DOMAIN c.repay :
               NoRowOf(MarginTable("repay", k[2]), {<<k[2], k[1]>>}) =>
                   c.repay[k] = DefaultTime
        /\ \A k \in DOMAIN c.loan :
               NoRowOf(MarginTable("loan", k[2]), {<<k[2], k[1]>>}) =>
                   c.loan[k] = DefaultTime
        /\ \A t \in DOMAIN c.redemption :
               NoRowOf("lending_redemption_history", types(t)) =>
                   c.redemption[t] = DefaultTime
        /\ \A t \in DOMAIN c.purchase :
               NoRowOf("lending_purchase_history", types(t)) => c.purchase[t] = DefaultTime
        /\ \A t \in DOMAIN c.lending_interest :
               NoRowOf("lending_interest_table", types(t)) =>
                   c.lending_interest[t] = DefaultTime
        /\ NoRowOf("spot_dividend_table", {<<>>}) => c.dividend = DefaultTime
        /\ NoRowOf("spot_withdraw", {<<>>}) => c.withdraw = DefaultTime
        /\ NoRowOf("spot_deposit", {<<>>}) => c.deposit = DefaultTime
        /\ \A k \in DOMAIN c.trade :
               NoRowOf(TradeTable(k[2]), {<<k[1], "USDT">>}) =>
                   c.trade[k] = -1 /\ from_id(c.trade[k]) = 0

\* the table of the stream exists and holds a row of one Stream Key and none of
\* another, while the table of another stream does not exist
C16_Witness ==
    /\ remote \in db.tables
    /\ \E scope \in ScopesOf(remote) :
           ~NoRowOf(remote, {scope}) /\ NoRowOf(remote, ScopesOf(remote) \ {scope})
    /\ ScopesOf(remote) # {<<>>}
    /\ IncrementalTables \ db.tables # {}

\* the tables whose rows carry an identifier assigned by the source
IdentifiedTables ==
    PrimaryKeyTables \cup IsolatedKeyTables \cup {"spot_trade", "cross_margin_trade"}

\* C17: after any sequence of inserts, a (Stream Key, identifier) pair occurs at
\* most once in the Store, for every kind of activity with an identifier assigned
\* by the source, trades included: an insert of an identifier already stored is
\* rejected and stores nothing.
C17_IdentifierStoredOnce ==
    \A r \in DOMAIN Visible(db) :
        r.tbl \in IdentifiedTables =>
            /\ CopiesIn(r, Visible(db)) <= 1
            /\ \A q \in DOMAIN Visible(db) :
                   (q.tbl = r.tbl /\ q.scope = r.scope /\ q.id = r.id) => q = r

(***************************************************************************)
(* Time-windowed streams: deposits, withdrawals, dividends                 *)
(***************************************************************************)

\* latest value of the clock in the model (milliseconds from 2017-01-01)
MaxNow == 4

\* length of a day in the model, in the place of 24 * 3600 * 1000 milliseconds
DayMs == 1

\* largest day_jump a caller passes in the model
MaxDayJump == 2

\* the cap of day_jump: min(day_jump, 90)
DAY_JUMP_CAP == 90

\* the cap of the dividend limit: min(500, limit)
DIVIDEND_LIMIT_CAP == 500

WindowStreams == {"deposit", "withdraw", "dividend"}

\* the operation of a stream
WindowOp(stream) ==
    CASE stream = "deposit" -> "update_spot_deposits"
      [] stream = "withdraw" -> "update_spot_withdraws"
      [] stream = "dividend" -> "update_spot_dividends"

\* the table of a stream (add_deposit, add_withdraw, add_dividend)
WindowTable(stream) ==
    CASE stream = "deposit" -> "spot_deposit"
      [] stream = "withdraw" -> "spot_withdraw"
      [] stream = "dividend" -> "spot_dividend_table"

\* get_last_spot_deposit_time / get_last_spot_withdraw_time / get_last_spot_dividend_time
get_last_window_time(d, stream) ==
    CASE stream = "deposit" -> get_last_spot_deposit_time(d)
      [] stream = "withdraw" -> get_last_spot_withdraw_time(d)
      [] stream = "dividend" -> get_last_spot_dividend_time(d)

\* add_deposit / add_withdraw / add_dividend(..., auto_commit=False): the remote id
\* of a record is the key of its row
add_window_row(d, stream, id, time) == add_row(d, Row(WindowTable(stream), <<>>, id, time), FALSE)

\* the first window starts at the last stored time
window_start_at_last(last_time) == last_time

\* start_time = self.db.get_last_spot_*_time() + 1
window_start(last_time) == last_time + 1

\* the window after one of [start_time, start_time + delta_jump] starts at its
\* endTime
next_window_at_end(start_time, delta_jump) == start_time + delta_jump

\* start_time += delta_jump + 1: endTime is included in the previous return
next_window(start_time, delta_jump) == start_time + delta_jump + 1

\* the elements of a finite set of integers in descending order
RECURSIVE Descending(_)
Descending(S) ==
    IF S = {} THEN <<>>
    ELSE LET m == Max(S) IN <<m>> \o Descending(S \ {m})

\* the answers the source may give to a query of [startTime, endTime] (both
\* included): every record of the window for deposits and withdrawals, at most
\* `limit` of them for dividends, oldest or newest first
WindowAnswers(times, stream, startTime, endTime, limit) ==
    LET inside == {t \in times : startTime <= t /\ t <= endTime}
    IN  IF stream = "dividend"
        THEN {FirstN(Ascending(inside), limit), FirstN(Descending(inside), limit)}
        ELSE {Ascending(inside)}

\* what the claims read of the window runs: the start_time the last completed run
\* had reached when its loop ended (-1: no run completed), the startTime of the
\* first query of the run in progress (-1: none yet), how the last run ended
ObsWindows0 == [reached |-> -1, first_start |-> -1, ended |-> "none"]

\* the loop written `while start_time <= now_millistamp`
window_loop_through_now(r) ==
    IF r.start_time <= r.now_millistamp
    THEN /\ run' = [r EXCEPT !.pc = "fetch", !.rows = <<>>, !.done = 0]
         /\ obs' = [obs EXCEPT !.ended = "running",
                               !.first_start = IF r.first THEN -1 ELSE @]
    ELSE /\ run' = Idle
         /\ obs' = [obs EXCEPT !.ended = "completed", !.reached = r.start_time,
                               !.first_start = IF r.first THEN -1 ELSE @]

\* `while start_time < now_millistamp`: the run goes on with the next window, or
\* the operation returns
window_loop(r) ==
    IF r.start_time < r.now_millistamp
    THEN /\ run' = [r EXCEPT !.pc = "fetch", !.rows = <<>>, !.done = 0]
         /\ obs' = [obs EXCEPT !.ended = "running",
                               !.first_start = IF r.first THEN -1 ELSE @]
    ELSE /\ run' = Idle
         /\ obs' = [obs EXCEPT !.ended = "completed", !.reached = r.start_time,
                               !.first_start = IF r.first THEN -1 ELSE @]

\* update_spot_deposits / update_spot_withdraws / update_spot_dividends, up to the
\* loop: delta_jump, the cursor read from the Store, the clock, and the length of
\* the progress bar, math.ceil((now_millistamp - start_time) / delta_jump), whose
\* ZeroDivisionError leaves the operation when delta_jump is 0; `windows` keeps
\* the [startTime, endTime] of the queries the run has made
update_spot_window(day_jump, limit) ==
    /\ run = Idle
    /\ IF Min2(day_jump, DAY_JUMP_CAP) * DayMs = 0
       THEN /\ run' = Idle
            /\ obs' = [obs EXCEPT !.ended = "raised", !.first_start = -1]
       ELSE window_loop([op |-> WindowOp(remote.stream), pc |-> "begin",
                         stream |-> remote.stream,
                         limit |-> Min2(DIVIDEND_LIMIT_CAP, limit),
                         delta_jump |-> Min2(day_jump, DAY_JUMP_CAP) * DayMs,
                         start_time |-> window_start(get_last_window_time(db, remote.stream)),
                         now_millistamp |-> remote.now,
                         first |-> TRUE, rows |-> <<>>, done |-> 0,
                         windows |-> <<>>])
    /\ UNCHANGED <<db, remote, script, outcome>>

\* the guarded query of one window; an exception of the guard leaves the operation
fetch_window ==
    /\ run # Idle /\ run.op = WindowOp(remote.stream) /\ run.pc = "fetch"
    /\ \E g \in GuardEndings :
        IF g.kind = "return"
        THEN \E answer \in WindowAnswers(remote.times, run.stream, run.start_time,
                                         run.start_time + run.delta_jump, run.limit) :
                /\ run' = [run EXCEPT !.rows = answer, !.done = 0, !.pc = "insert",
                                      !.first = FALSE,
                                      !.windows = Append(@,
                                          [startTime |-> run.start_time,
                                           endTime |-> run.start_time + run.delta_jump])]
                /\ obs' = [obs EXCEPT !.first_start = IF run.first THEN run.start_time ELSE @]
        ELSE /\ run' = Idle
             /\ obs' = [obs EXCEPT !.ended = "raised"]
    /\ UNCHANGED <<db, remote, script, outcome>>

\* one turn of the loop over the records of the window: the row is inserted
\* without commit; the IntegrityError of a key already stored leaves the operation
insert_window_row ==
    /\ run # Idle /\ run.op = WindowOp(remote.stream) /\ run.pc = "insert"
    /\ run.done < Len(run.rows)
    /\ LET t == run.rows[run.done + 1]
           added == add_window_row(db, run.stream, t, t)
       IN  /\ db' = added.db
           /\ IF added.raised = "none"
              THEN /\ run' = [run EXCEPT !.done = @ + 1]
                   /\ obs' = obs
              ELSE /\ run' = Idle
                   /\ obs' = [obs EXCEPT !.ended = "raised"]
    /\ UNCHANGED <<remote, script, outcome>>

\* after the records of the window: start_time moves on (past the window, or for
\* dividends past the first record of a full page), the rows are committed when
\* there are any, and the loop condition is tested; the IndexError of dividends[0]
\* leaves the operation when an empty page counts as full (limit <= 0)
end_of_window ==
    /\ run # Idle /\ run.op = WindowOp(remote.stream) /\ run.pc = "insert"
    /\ run.done = Len(run.rows)
    /\ IF run.stream = "dividend" /\ Len(run.rows) >= run.limit /\ run.rows = <<>>
       THEN /\ db' = db
            /\ run' = Idle
            /\ obs' = [obs EXCEPT !.ended = "raised"]
       ELSE /\ db' = IF Len(run.rows) > 0 THEN commit(db) ELSE db
            /\ window_loop([run EXCEPT !.start_time =
                               IF run.stream = "dividend" /\ Len(run.rows) >= run.limit
                               THEN run.rows[1] + 1
                               ELSE next_window(@, run.delta_jump)])
    /\ UNCHANGED <<remote, script, outcome>>

\* time passes
tick ==
    /\ remote.now < MaxNow
    /\ remote' = [remote EXCEPT !.now = @ + 1]
    /\ UNCHANGED <<db, run, obs, script, outcome>>

\* the account receives a deposit (a withdrawal, a dividend) at the present time
new_remote_record ==
    /\ remote.now > DefaultTime
    /\ remote.now \notin remote.times
    /\ remote' = [remote EXCEPT !.times = @ \cup {remote.now}]
    /\ UNCHANGED <<db, run, obs, script, outcome>>

\* an exception reaches the caller in the middle of the operation
interrupt_window ==
    /\ run # Idle
    /\ run' = Idle
    /\ obs' = [obs EXCEPT !.ended = "interrupted"]
    /\ UNCHANGED <<db, remote, script, outcome>>

\* the process ends and a new one opens the database
exit_window ==
    /\ db' = [db EXCEPT !.pending = EmptyBag]
    /\ run' = Idle
    /\ obs' = [obs EXCEPT !.ended = IF run = Idle THEN @ ELSE "killed"]
    /\ UNCHANGED <<remote, script, outcome>>

InitWindows ==
    /\ script = <<>>
    /\ outcome = NotCalled
    /\ db = EmptyStore
    /\ remote \in [stream : WindowStreams, now : {DefaultTime}, times : {{}}]
    /\ run = Idle
    /\ obs = ObsWindows0

NextWindows ==
    \/ \E day_jump \in 1..MaxDayJump, limit \in 1..MaxLimit : update_spot_window(day_jump, limit)
    \/ fetch_window
    \/ insert_window_row
    \/ end_of_window
    \/ tick
    \/ new_remote_record
    \/ interrupt_window
    \/ exit_window

SpecWindows == InitWindows /\ [][NextWindows]_vars

\* the same operations called with any day_jump and limit, zero and negative ones
\* too; a run whose start_time moves back is followed down to MaxNow before the
\* default time, and a run whose start_time stays where it is for MaxNow + 2
\* windows
NextWindowsAnyInput ==
    \/ \E day_jump \in -MaxDayJump..MaxDayJump, limit \in 0..MaxLimit :
          update_spot_window(day_jump, limit)
    \/ fetch_window /\ (run' # Idle => Len(run'.windows) <= MaxNow + 2)
    \/ insert_window_row
    \/ end_of_window /\ (run' # Idle => run'.start_time >= DefaultTime - MaxNow)
    \/ tick
    \/ new_remote_record
    \/ interrupt_window
    \/ exit_window

SpecWindowsAnyInput == InitWindows /\ [][NextWindowsAnyInput]_vars

(***************************************************************************)
(* Claims about the time-windowed streams (checked under SpecWindows)      *)
(***************************************************************************)

\* the timestamps stored for a stream, as a query through the connection sees them
StoredTimes(stream) == {r.time : r \in TableRows(db, WindowTable(stream))}

\* C8 as stated: the startTime of the first remote query of a run is at least the
\* start_time the previous completed run of the stream had reached when its loop
\* ended, also when the last windows of that run returned no record.
C8_FirstStartNotBelowReached ==
    (run # Idle /\ obs.first_start >= 0 /\ obs.reached >= 0) =>
        obs.first_start >= obs.reached

\* C8 amended: the startTime of the first remote query of a run is the largest
\* timestamp stored for the stream plus one (the 2017-01-01 default plus one when
\* none is stored): it lies above every stored timestamp, whatever start_time the
\* previous run reached over windows that returned no record.
C8_FirstStartAfterStored ==
    (run # Idle /\ run.pc = "fetch" /\ run.first) =>
        /\ \A t \in StoredTimes(run.stream) : t < run.start_time
        /\ run.start_time = Max(StoredTimes(run.stream) \cup {DefaultTime}) + 1

\* a run starts its first window below the start_time the previous completed run
\* had reached, a record being stored
C8_Witness ==
    /\ run # Idle /\ run.pc = "fetch" /\ run.first
    /\ StoredTimes(run.stream) # {}
    /\ obs.reached > run.start_time

\* C15: in a run of update_spot_deposits or update_spot_withdraws, now is captured
\* once; every query is made with start_time below the captured now and returns
\* the records of the window from start_time to start_time + delta_jump; the query
\* after it starts at start_time + delta_jump + 1, so that a window is queried
\* once; and when the window reaches the captured now, the first window of a run
\* in particular, no further query is made.
C15_OneCallPerWindow ==
    [][(run # Idle /\ run.stream \in {"deposit", "withdraw"}) =>
           /\ run.pc = "fetch" => run.start_time < run.now_millistamp
           /\ run' # Idle => run'.now_millistamp = run.now_millistamp
           /\ (run.pc = "fetch" /\ run' # Idle /\ run'.pc = "insert") =>
                  run'.rows = Ascending({t \in remote.times :
                                           /\ run.start_time <= t
                                           /\ t <= run.start_time + run.delta_jump})
           /\ (run.pc = "insert" /\ run' # Idle /\ run'.pc = "fetch") =>
                  /\ run'.start_time = run.start_time + run.delta_jump + 1
                  /\ run.start_time + run.delta_jump < run.now_millistamp
           /\ (/\ run.pc = "insert" /\ run.done = Len(run.rows)
               /\ run.start_time + run.delta_jump >= run.now_millistamp
               /\ run' # run) =>
                  run' = Idle]_vars

\* the first query of a run has returned the records of the source, all within the
\* first window, which reaches the captured now
C15_Witness ==
    /\ run # Idle /\ run.stream \in {"deposit", "withdraw"}
    /\ run.pc = "insert" /\ run.start_time = obs.first_start
    /\ run.rows # <<>> /\ run.done = Len(run.rows)
    /\ \A t \in remote.times : run.start_time <= t /\ t <= run.start_time + run.delta_jump
    /\ run.start_time + run.delta_jump >= run.now_millistamp

\* C12: no insert of update_spot_dividends conflicts with a stored row, and when
\* the operation completes the Store holds exactly once every remote dividend
\* from the startTime of its first query to the captured now, also when a window
\* holds more than `limit` records, in either order of the page.
C12_DividendsExactlyOnce ==
    [][(/\ run # Idle /\ run.stream = "dividend" /\ run.pc = "insert"
        /\ run' = Idle /\ obs'.ended \in {"raised", "completed"}) =>
           /\ obs'.ended = "completed"
           /\ \A t \in remote.times :
                  (obs.first_start <= t /\ t < run.now_millistamp) =>
                      \E r \in TableRows(db', "spot_dividend_table") :
                          r.time = t /\ CopiesIn(r, db'.committed) = 1]_vars

\* the step is the end of an iteration of the loop of the run: the records of
\* the window are inserted and the loop condition is tested again
IterationEnded ==
    /\ run # Idle /\ run.pc = "insert" /\ run.done = Len(run.rows)
    /\ run' # run
    /\ obs'.ended \in {"running", "completed"}

\* C24 (checked under SpecWindowsAnyInput): in the syncs of deposits, withdrawals
\* and dividends `now` is the same all through a run, start_time is larger after
\* every iteration of the loop than before it, and the loop goes on exactly while
\* start_time is below `now`, whatever day_jump and limit the caller gave and
\* whatever the source records in the meantime; so a run ends.
C24_StartTimeIncreasesToNow ==
    [][/\ (run # Idle /\ run' # Idle) => run'.now_millistamp = run.now_millistamp
       /\ IterationEnded =>
              IF run' = Idle
              THEN obs'.reached > run.start_time /\ obs'.reached >= run.now_millistamp
              ELSE /\ run'.start_time > run.start_time
                   /\ run'.start_time < run.now_millistamp
                   /\ run'.pc = "fetch"]_vars

(***************************************************************************)
(* Page-cursor streams with an archive: margin loans, repays, interests    *)
(***************************************************************************)

\* the timestamps of the remote records are the multiples of TimeStep from
\* 2 * TimeStep to MaxRecordTime * TimeStep (milliseconds from 2017-01-01)
TimeStep == 600

MaxRecordTime == 3

\* records asked per page in the model, in the place of 'size': 100
PageSize == 2

\* 'startTime': latest_time + 1000
STARTTIME_OFFSET == 1000

\* the age beyond which the sync asks for archived data: three days in the model,
\* in the place of the three months 1000 * 3600 * 24 * 30 * 3, so that the
\* timestamps stay within 32-bit integers
ARCHIVE_SPAN == 1000 * 3600 * 24 * 3

\* 1000 * time.time(): the clock stands still in the model, at a moment when the
\* oldest remote records are past the age of the archive and the others are not
PagesNow == ARCHIVE_SPAN + 2 * TimeStep + 300

RecordTimes == {k * TimeStep : k \in 2..MaxRecordTime}

PageKinds == {"loan", "repay", "interest"}

\* the lanes of a kind in the model: cross margin (no isolated symbol) and one
\* isolated symbol, for the same asset
PageSymbols == {None, "BTCUSDT"}

\* the operation of a kind
PageOp(kind) ==
    CASE kind = "loan" -> "update_margin_asset_loans"
      [] kind = "repay" -> "update_margin_asset_repay"
      [] kind = "interest" -> "update_margin_interests"

\* the remote records of a lane: a timestamp each, which stands for the txId as
\* well, and whether the status is CONFIRMED (interests carry no status); at most
\* one record of a lane is not confirmed
LaneRecords(kind) ==
    {recs \in SUBSET [time : RecordTimes, confirmed : BOOLEAN] :
        /\ \A a, b \in recs : a.time = b.time => a = b
        /\ Cardinality({a \in recs : ~a.confirmed}) <= IF kind = "interest" THEN 0 ELSE 1}

\* the source keeps the records older than the age of the archive apart
RemoteArchived(time) == PagesNow - time > ARCHIVE_SPAN

\* the records of a sequence in the order of their timestamps
RECURSIVE ByTime(_)
ByTime(recs) ==
    IF recs = {} THEN <<>>
    ELSE LET first == CHOOSE a \in recs : \A b \in recs : a.time <= b.time
         IN  <<first>> \o ByTime(recs \ {first})

\* client.get_margin_loan_details / get_margin_repay_details / margin/interestHistory
\* (current, startTime, archived, size): page `current` of the records of the
\* partition from startTime on
get_margin_details(recs, current, startTime, archived, size) ==
    LET matching == ByTime({a \in recs : a.time >= startTime /\ RemoteArchived(a.time) = archived})
        from == (current - 1) * size + 1
    IN  IF from > Len(matching) THEN <<>>
        ELSE SubSeq(matching, from, Min2(current * size, Len(matching)))

\* the cursor read when an operation starts
first_latest_time(d, kind, asset, isolated_symbol) ==
    CASE kind = "loan" -> get_last_loan_time(d, asset, isolated_symbol)
      [] kind = "repay" -> get_last_repay_time(d, asset, isolated_symbol)
      [] kind = "interest" -> get_last_margin_interest_time(d, None, isolated_symbol)

\* the operation leaves the archive with the cursor it started with
kept_latest_time(d, kind, asset, isolated_symbol) == run.latest_time

\* the cursor read again when the operation leaves the archive
switch_latest_time(d, kind, asset, isolated_symbol) ==
    CASE kind = "loan" -> get_last_loan_time(d, asset, isolated_symbol)
      [] kind = "repay" -> get_last_repay_time(d, asset, None)
      [] kind = "interest" -> get_last_margin_interest_time(d, None, isolated_symbol)

\* add_loan / add_repay / add_margin_interest(..., auto_commit=False)
add_margin_row(d, kind, asset, isolated_symbol, id, time) ==
    add_row(d, Row(MarginTable(kind, isolated_symbol), <<isolated_symbol, asset>>, id, time), FALSE)

\* what the claims read of the page runs: the lane of the last run, whether it
\* started in the archive, how it ended
ObsPages0 == [symbol |-> None, started_archived |-> FALSE, ended |-> "none"]

\* update_margin_asset_loans / update_margin_asset_repay / update_margin_interests,
\* up to the loop
update_margin(isolated_symbol) ==
    /\ run = Idle
    /\ LET latest_time == first_latest_time(db, remote.kind, "BTC", isolated_symbol)
           archived == PagesNow - latest_time > ARCHIVE_SPAN
       IN  /\ run' = [op |-> PageOp(remote.kind), pc |-> "fetch", kind |-> remote.kind,
                      asset |-> "BTC", isolated_symbol |-> isolated_symbol,
                      latest_time |-> latest_time, archived |-> archived, current |-> 1,
                      rows |-> <<>>, done |-> 0]
           /\ obs' = [symbol |-> isolated_symbol, started_archived |-> archived,
                      ended |-> "running"]
    /\ UNCHANGED <<db, remote, script, outcome>>

\* the guarded fetch of one page; an exception of the guard leaves the operation,
\* and so does the KeyError of loans['rows'] (repays['rows'], interests['rows'])
\* when the answer has no 'rows'
fetch_page ==
    /\ run # Idle /\ run.op = PageOp(remote.kind) /\ run.pc = "fetch"
    /\ \E g \in GuardEndings, has_rows \in BOOLEAN :
        IF g.kind = "return"
        THEN IF has_rows
             THEN /\ run' = [run EXCEPT
                               !.rows = get_margin_details(remote.recs[run.isolated_symbol],
                                                           run.current,
                                                           run.latest_time + STARTTIME_OFFSET,
                                                           run.archived, PageSize),
                               !.done = 0, !.pc = "insert"]
                  /\ obs' = obs
             ELSE /\ run' = Idle
                  /\ obs' = [obs EXCEPT !.ended = "KeyError"]
        ELSE /\ run' = Idle
             /\ obs' = [obs EXCEPT !.ended = "raised"]
    /\ UNCHANGED <<db, remote, script, outcome>>

\* one turn of the loop over the rows of the page: a CONFIRMED loan or repay, or
\* any interest, is inserted without commit; the IntegrityError of a key already
\* stored leaves the operation
insert_page_row ==
    /\ run # Idle /\ run.op = PageOp(remote.kind) /\ run.pc = "insert"
    /\ run.done < Len(run.rows)
    /\ LET rec == run.rows[run.done + 1]
           added == add_margin_row(db, run.kind, run.asset, run.isolated_symbol,
                                   rec.time, rec.time)
       IN  IF run.kind = "interest" \/ rec.confirmed
           THEN /\ db' = added.db
                /\ IF added.raised = "none"
                   THEN /\ run' = [run EXCEPT !.done = @ + 1]
                        /\ obs' = obs
                   ELSE /\ run' = Idle
                        /\ obs' = [obs EXCEPT !.ended = "raised"]
           ELSE /\ db' = db
                /\ run' = [run EXCEPT !.done = @ + 1]
                /\ obs' = obs
    /\ UNCHANGED <<remote, script, outcome>>

\* after the rows of the page: the next page and a commit when the page held rows,
\* else the switch to the live data with the cursor read again, else the end
end_of_page ==
    /\ run # Idle /\ run.op = PageOp(remote.kind) /\ run.pc = "insert"
    /\ run.done = Len(run.rows)
    /\ IF Len(run.rows) > 0
       THEN /\ db' = commit(db)
            /\ run' = [run EXCEPT !.current = @ + 1, !.pc = "fetch", !.rows = <<>>,
                                  !.done = 0]
            /\ obs' = obs
       ELSE IF run.archived
            THEN /\ db' = db
                 /\ run' = [run EXCEPT
                              !.current = 1, !.archived = FALSE,
                              !.latest_time = switch_latest_time(db, run.kind, run.asset,
                                                                 run.isolated_symbol),
                              !.pc = "fetch", !.rows = <<>>, !.done = 0]
                 /\ obs' = obs
            ELSE /\ db' = db
                 /\ run' = Idle
                 /\ obs' = [obs EXCEPT !.ended = "completed"]
    /\ UNCHANGED <<remote, script, outcome>>

\* an exception reaches the caller in the middle of the operation
interrupt_page ==
    /\ run # Idle
    /\ run' = Idle
    /\ obs' = [obs EXCEPT !.ended = "interrupted"]
    /\ UNCHANGED <<db, remote, script, outcome>>

\* the process ends and a new one opens the database
exit_page ==
    /\ db' = [db EXCEPT !.pending = EmptyBag]
    /\ run' = Idle
    /\ obs' = [obs EXCEPT !.ended = IF run = Idle THEN @ ELSE "killed"]
    /\ UNCHANGED <<remote, script, outcome>>

InitPages ==
    /\ script = <<>>
    /\ outcome = NotCalled
    /\ db = EmptyStore
    /\ \E kind \in PageKinds :
          remote \in [kind : {kind}, recs : [PageSymbols -> LaneRecords(kind)]]
    /\ run = Idle
    /\ obs = ObsPages0

NextPages ==
    \/ \E isolated_symbol \in PageSymbols : update_margin(isolated_symbol)
    \/ fetch_page
    \/ insert_page_row
    \/ end_of_page
    \/ interrupt_page
    \/ exit_page

SpecPages == InitPages /\ [][NextPages]_vars

(***************************************************************************)
(* Claims about the page-cursor streams (checked under SpecPages)          *)
(***************************************************************************)

\* the rows stored for the lane of an isolated symbol (None: cross margin)
PageLaneRows(bag, kind, isolated_symbol) ==
    {r \in DOMAIN bag : /\ r.tbl = MarginTable(kind, isolated_symbol)
                        /\ r.scope = <<isolated_symbol, "BTC">>}

\* C9: the cursor an operation takes for a Stream Key, when it starts and when it
\* leaves the archive, is the latest timestamp among the records persisted for
\* that same Stream Key (the default when there is none), whatever is persisted
\* under another Stream Key.
C9_CursorOfOwnRecords ==
    [][(run' # Idle /\ (run = Idle \/ (run.archived /\ ~run'.archived))) =>
           run'.latest_time =
               MaxTimeOf(PageLaneRows(Visible(db'), run'.kind, run'.isolated_symbol))]_vars

\* C10: when an invocation that started in the archive has run to its end, every
\* accepted record of its Stream Key, archived or live, is committed.
C10_ArchivedThenLivePersisted ==
    (run = Idle /\ obs.ended = "completed" /\ obs.started_archived) =>
        \A rec \in remote.recs[obs.symbol] :
            (remote.kind = "interest" \/ rec.confirmed) =>
                \E r \in PageLaneRows(db.committed, remote.kind, obs.symbol) :
                    r.time = rec.time

(***************************************************************************)
(* Page-cursor streams without archive: universal transfers and lending    *)
(***************************************************************************)

\* the timestamps of the remote records of a lane are the first MaxHistoryTime
\* multiples of the unit of time of the stream
MaxHistoryTime == 3

\* latest_time = get_last_lending_interest_time(...) + 3600 * 1000  (add 1 hour)
LENDING_INTEREST_OFFSET == 3600 * 1000

HistoryKinds ==
    {"universal_transfer", "lending_purchase", "lending_redemption", "lending_interest"}

\* the operation of a kind
HistoryOp(kind) ==
    CASE kind = "universal_transfer" -> "update_universal_transfers"
      [] kind = "lending_purchase" -> "update_lending_purchases"
      [] kind = "lending_redemption" -> "update_lending_redemptions"
      [] kind = "lending_interest" -> "update_lending_interests"

HistoryTable(kind) ==
    CASE kind = "universal_transfer" -> "universal_transfer_table"
      [] kind = "lending_purchase" -> "lending_purchase_history"
      [] kind = "lending_redemption" -> "lending_redemption_history"
      [] kind = "lending_interest" -> "lending_interest_table"

\* transfers_types / lending_types: the lanes an operation goes through, in the
\* order of its loop; two of them in the model
HistoryTypes(kind) ==
    IF kind = "universal_transfer" THEN <<"MAIN_MARGIN", "MARGIN_MAIN">>
    ELSE <<"DAILY", "ACTIVITY">>

\* the kinds whose records carry a status the operation tests:
\* li['status'] == 'SUCCESS' for purchases, li['status'] == 'PAID' for redemptions
StatusKinds == {"lending_purchase", "lending_redemption"}

\* a record of any status passes
any_status(kind, rec) == TRUE

\* the test of the status before the insert: 'SUCCESS' for a purchase, 'PAID' for a
\* redemption, none for the other kinds
has_accepted_status(kind, rec) == kind \in StatusKinds => rec.accepted

\* the unit of time of a stream: lending interests are paid by the hour, the
\* other records come by the millisecond
HistoryUnit(kind) == IF kind = "lending_interest" THEN LENDING_INTEREST_OFFSET ELSE 1

\* client.query_universal_transfer_history / get_lending_purchase_history /
\* get_lending_redemption_history / get_lending_interest_history
\* (type, startTime, current, size): page `current` of the records of the lane
\* from startTime on, listed from the oldest or from the newest
get_history(recs, order, startTime, current, size) ==
    LET inside == ByTime({a \in recs : a.time >= startTime})
        listed == IF order = "desc" THEN Backwards(inside) ELSE inside
        from == (current - 1) * size + 1
    IN  IF from > Len(listed) THEN <<>>
        ELSE SubSeq(listed, from, Min2(current * size, Len(listed)))

\* latest_time of a lane: the cursor of the lane plus one millisecond, plus one
\* hour for the lending interests
history_latest_time(d, kind, type) ==
    CASE kind = "universal_transfer" -> get_last_universal_transfer_time(d, type) + 1
      [] kind = "lending_purchase" -> get_last_lending_purchase_time(d, type) + 1
      [] kind = "lending_redemption" -> get_last_lending_redemption_time(d, type) + 1
      [] kind = "lending_interest" ->
             get_last_lending_interest_time(d, type) + LENDING_INTEREST_OFFSET

\* add_universal_transfer / add_lending_purchase / add_lending_redemption /
\* add_lending_interest, called without auto_commit: the default True commits
\* after the row
add_history_row(d, kind, type, id, time) ==
    add_row(d, Row(HistoryTable(kind), <<type>>, id, time), TRUE)

\* what the claims read of the history runs: how the last run ended ("cut": by an
\* exception between two pages, after the commit of a page; "IntegrityError": by
\* the conflict of an insert with a stored key), whether the run before
\* the current one was cut, whether the source stood still since the current run
\* began (and answered each of its fetches with the records it holds)
ObsHistory0 == [ended |-> "other", resumed |-> FALSE, quiet |-> FALSE]

\* the run is left by an exception
history_left(o, between_pages) ==
    [ended |-> IF between_pages THEN "cut" ELSE "other", resumed |-> FALSE, quiet |-> FALSE]

\* update_universal_transfers / update_lending_purchases /
\* update_lending_redemptions / update_lending_interests, up to the first loop
update_history ==
    /\ run = Idle
    /\ LET types == HistoryTypes(remote.kind)
       IN  run' = [op |-> HistoryOp(remote.kind), pc |-> "fetch", kind |-> remote.kind,
                   types |-> types,
                   latest_time |-> history_latest_time(db, remote.kind, Head(types)),
                   current |-> 1, rows |-> <<>>, done |-> 0]
    /\ obs' = [ended |-> "other", resumed |-> obs.ended = "cut", quiet |-> TRUE]
    /\ UNCHANGED <<db, remote, script, outcome>>

\* the `break` of the loop of a lane: the next lane with its cursor, else the end
history_break(r, d) ==
    IF Len(r.types) > 1
    THEN [r EXCEPT !.types = Tail(@), !.current = 1,
                   !.latest_time = history_latest_time(d, r.kind, r.types[2]),
                   !.pc = "fetch", !.rows = <<>>, !.done = 0]
    ELSE Idle

\* the guarded fetch of one page of the lane; an exception of the guard leaves the
\* operation. The answer of the universal transfers is read at 'rows', and the
\* KeyError of an answer without 'rows' leaves the loop of the lane; the answers of
\* the lending streams are the lists themselves
fetch_history ==
    /\ run # Idle /\ run.op = HistoryOp(remote.kind) /\ run.pc = "fetch"
    /\ \E g \in GuardEndings, has_rows \in BOOLEAN :
        IF g.kind = "return"
        THEN IF has_rows \/ run.kind # "universal_transfer"
             THEN /\ run' = [run EXCEPT
                               !.rows = get_history(remote.recs[Head(run.types)],
                                                    remote.order, run.latest_time,
                                                    run.current, PageSize),
                               !.done = 0, !.pc = "insert"]
                  /\ obs' = obs
             ELSE /\ run' = history_break(run, db)
                  /\ obs' = [obs EXCEPT
                               !.ended = IF Len(run.types) > 1 THEN @ ELSE "completed",
                               !.quiet = FALSE]
        ELSE /\ run' = Idle
             /\ obs' = history_left(obs, run.current > 1)
    /\ UNCHANGED <<db, remote, script, outcome>>

\* one turn of the loop over the rows of the page: a record of accepted status, or
\* any record of a kind without status, is inserted and committed; the
\* IntegrityError of a key already stored leaves the operation
insert_history_row ==
    /\ run # Idle /\ run.op = HistoryOp(remote.kind) /\ run.pc = "insert"
    /\ run.done < Len(run.rows)
    /\ LET rec == run.rows[run.done + 1]
           added == add_history_row(db, run.kind, Head(run.types), rec.time, rec.time)
       IN  IF has_accepted_status(run.kind, rec)
           THEN /\ db' = added.db
                /\ IF added.raised = "none"
                   THEN /\ run' = [run EXCEPT !.done = @ + 1]
                        /\ obs' = obs
                   ELSE /\ run' = Idle
                        /\ obs' = [history_left(obs, FALSE) EXCEPT
                                      !.ended = "IntegrityError"]
           ELSE /\ db' = db
                /\ run' = [run EXCEPT !.done = @ + 1]
                /\ obs' = obs
    /\ UNCHANGED <<remote, script, outcome>>

\* the page counts when it holds a record of accepted status
page_holds_accepted(kind, rows) == \E i \in DOMAIN rows : has_accepted_status(kind, rows[i])

\* `if len(lending_redemptions):` (len(lending_purchases), len(lending_interests),
\* len(universal_transfers)): the page as fetched holds records
page_holds_records(kind, rows) == Len(rows) > 0

\* after the rows of the page: the next page and a commit when the page held rows,
\* else the next lane with its cursor, else the end
end_of_history_page ==
    /\ run # Idle /\ run.op = HistoryOp(remote.kind) /\ run.pc = "insert"
    /\ run.done = Len(run.rows)
    /\ IF page_holds_records(run.kind, run.rows)
       THEN /\ db' = commit(db)
            /\ run' = [run EXCEPT !.current = @ + 1, !.pc = "fetch", !.rows = <<>>,
                                  !.done = 0]
            /\ obs' = obs
       ELSE IF Len(run.types) > 1
            THEN /\ db' = db
                 /\ run' = [run EXCEPT
                              !.types = Tail(@), !.current = 1,
                              !.latest_time = history_latest_time(db, run.kind,
                                                                  run.types[2]),
                              !.pc = "fetch", !.rows = <<>>, !.done = 0]
                 /\ obs' = obs
            ELSE /\ db' = db
                 /\ run' = Idle
                 /\ obs' = [obs EXCEPT !.ended = "completed"]
    /\ UNCHANGED <<remote, script, outcome>>

\* the source records a new activity in a lane, one unit of time after the last
\* one it holds; at most one record of a lane is of a status that is not accepted
new_history_record ==
    /\ \E type \in {HistoryTypes(remote.kind)[i] : i \in 1..2}, accepted \in BOOLEAN :
        LET k == Cardinality(remote.recs[type]) + 1
        IN  /\ k <= MaxHistoryTime
            /\ ~accepted => /\ remote.kind \in StatusKinds
                            /\ \A a \in remote.recs[type] : a.accepted
            /\ remote' = [remote EXCEPT
                            !.recs[type] = @ \cup {[time |-> k * HistoryUnit(remote.kind),
                                                    accepted |-> accepted]}]
    /\ obs' = [obs EXCEPT !.quiet = FALSE]
    /\ UNCHANGED <<db, run, script, outcome>>

\* an exception reaches the caller in the middle of the operation
interrupt_history ==
    /\ run # Idle
    /\ run' = Idle
    /\ obs' = history_left(obs, run.pc = "fetch" /\ run.current > 1)
    /\ UNCHANGED <<db, remote, script, outcome>>

\* the process ends and a new one opens the database
exit_history ==
    /\ db' = [db EXCEPT !.pending = EmptyBag]
    /\ run' = Idle
    /\ obs' = IF run = Idle THEN obs ELSE history_left(obs, FALSE)
    /\ UNCHANGED <<remote, script, outcome>>

InitHistories ==
    /\ script = <<>>
    /\ outcome = NotCalled
    /\ db = EmptyStore
    /\ \E kind \in HistoryKinds :
          remote \in [kind : {kind}, order : {"asc", "desc"},
                      recs : [{HistoryTypes(kind)[i] : i \in 1..2} -> {{}}]]
    /\ run = Idle
    /\ obs = ObsHistory0

NextHistories ==
    \/ update_history
    \/ fetch_history
    \/ insert_history_row
    \/ end_of_history_page
    \/ new_history_record
    \/ interrupt_history
    \/ exit_history

SpecHistories == InitHistories /\ [][NextHistories]_vars

(***************************************************************************)
(* Claims about the page-cursor streams without archive (SpecHistories)    *)
(***************************************************************************)

\* the rows stored for a lane of the running kind
HistoryLaneRows(bag, type) ==
    {r \in DOMAIN bag : r.tbl = HistoryTable(remote.kind) /\ r.scope = <<type>>}

\* the records of a lane the operation accepts
AcceptedRecords(type) ==
    {a \in remote.recs[type] : remote.kind \in StatusKinds => a.accepted}

\* C11: when a run was interrupted between two pages, after the commit of a page,
\* and the next run goes to its end without interruption, the source standing
\* still, the Store holds every accepted remote record of every lane, for any
\* order in which the source lists the records across the pages.
C11_ResumeComplete ==
    (run = Idle /\ obs.ended = "completed" /\ obs.resumed /\ obs.quiet) =>
        \A type \in DOMAIN remote.recs : \A a \in AcceptedRecords(type) :
            \E r \in HistoryLaneRows(db.committed, type) : r.time = a.time

\* C19: in a sync operation of a page-cursor stream with identifiers, the insert
\* of a record whose identifier is already committed is a no-op: the Store is
\* unchanged and the operation goes on with the next record of the page.
C19_DuplicateInsertIsNoOp ==
    [][(/\ run # Idle /\ run.pc = "insert" /\ run.done < Len(run.rows)
        /\ HistoryTable(run.kind) \in PrimaryKeyTables
        /\ run.kind \in StatusKinds => run.rows[run.done + 1].accepted
        /\ \E r \in DOMAIN db.committed :
               r.tbl = HistoryTable(run.kind) /\ r.id = run.rows[run.done + 1].time
        /\ run' # run
        /\ ~(run' = Idle /\ obs'.ended = "other")) =>
           /\ db' = db
           /\ run' = [run EXCEPT !.done = @ + 1]]_vars

\* C20: the accepted records of a fetched page become durable in one commit,
\* issued after all of them were inserted: whenever the committed rows change
\* during the page, they hold all the accepted records of the page or none.
C20_PageCommittedAtOnce ==
    [][(run # Idle /\ run.pc = "insert" /\ db'.committed # db.committed) =>
           LET accepted == {run.rows[i] : i \in {j \in 1..Len(run.rows) :
                                run.kind \in StatusKinds => run.rows[j].accepted}}
               durable == {a \in accepted :
                              \E r \in HistoryLaneRows(db'.committed, Head(run.types)) :
                                  r.time = a.time /\ CopiesIn(r, db'.committed) > 0}
           IN  durable = {} \/ durable = accepted]_vars

(***************************************************************************)
(* The page-cursor streams together: a behaviour is one of margin loans,   *)
(* repays or interests, or one of universal transfers or lending           *)
(***************************************************************************)

InitPageCursors == InitPages \/ InitHistories

NextPageCursors ==
    \/ remote.kind \in PageKinds /\ NextPages
    \/ remote.kind \in HistoryKinds /\ NextHistories

SpecPageCursors == InitPageCursors /\ [][NextPageCursors]_vars

(***************************************************************************)
(* Claims about the status of the records (checked under SpecPageCursors)  *)
(***************************************************************************)

\* a remote record of a status that is not the accepted one (CONFIRMED for a loan
\* or a repay, SUCCESS for a purchase, PAID for a redemption) has a row in Store d
RejectedStored(d) ==
    IF remote.kind \in PageKinds
    THEN \E y \in PageSymbols : \E a \in remote.recs[y] :
            /\ ~a.confirmed
            /\ \E r \in PageLaneRows(Visible(d), remote.kind, y) : r.time = a.time
    ELSE \E type \in DOMAIN remote.recs : \E a \in remote.recs[type] :
            /\ remote.kind \in StatusKinds /\ ~a.accepted
            /\ \E r \in HistoryLaneRows(Visible(d), type) : r.time = a.time

\* the committed rows of Store d for the lane of the run, and whether the run
\* accepts the status of a record
RunLaneRows(d) ==
    IF run.kind \in PageKinds THEN PageLaneRows(d.committed, run.kind, run.isolated_symbol)
    ELSE HistoryLaneRows(d.committed, Head(run.types))

RunAccepts(rec) ==
    IF run.kind \in PageKinds THEN rec.confirmed
    ELSE run.kind \in StatusKinds => rec.accepted

\* C13: after any sequence of sync runs no loan or repay that is not CONFIRMED, no
\* lending purchase that is not SUCCESS and no lending redemption that is not PAID
\* has a row in the Store, and when the operation has gone through a page and
\* committed it, the Store holds the records of the page of accepted status and
\* none of the others.
C13_OnlyAcceptedStatusStored ==
    [][/\ ~RejectedStored(db')
       /\ (/\ run # Idle /\ run.pc = "insert" /\ run.done = Len(run.rows)
           /\ run' # Idle /\ run'.pc = "fetch" /\ run'.current = run.current + 1) =>
              \A i \in 1..Len(run.rows) :
                  RunAccepts(run.rows[i]) <=>
                      \E r \in RunLaneRows(db') : r.time = run.rows[i].time]_vars

\* the operation has gone through a page of lending purchases or redemptions that
\* holds a record of accepted status and one of another status
C13_Witness ==
    /\ run # Idle /\ run.kind \in StatusKinds
    /\ run.pc = "insert" /\ run.done = Len(run.rows)
    /\ \E i, j \in 1..Len(run.rows) : run.rows[i].accepted /\ ~run.rows[j].accepted

\* the step is the answer of a page-cursor stream that reads its records at 'rows'
\* to a fetch, and the answer has no 'rows': the loop is left from the fetch itself,
\* by its `break` or by the KeyError
AnswerLacksRows ==
    /\ run # Idle /\ run.pc = "fetch" /\ run' # run
    /\ run.kind \in PageKinds \cup {"universal_transfer"}
    /\ IF run' = Idle THEN obs'.ended \in {"completed", "KeyError"} ELSE run'.pc = "fetch"

\* C22: in every page-cursor stream an answer that lacks its 'rows' ends the
\* pagination of the stream as an empty page does and raises no error: nothing is
\* written, and the operation ends normally or goes on with what follows the loop.
C22_MissingRowsEndsStream ==
    [][AnswerLacksRows =>
           /\ db' = db
           /\ obs'.ended # "KeyError"
           /\ run' = Idle => obs'.ended = "completed"]_vars

(***************************************************************************)
(* DataBase.add_row and update_row on the rows of a table with a primary   *)
(* key, column by column                                                   *)
(***************************************************************************)

\* the numbers a cell holds in the model are 0..MaxCell
MaxCell == 1

\* a value given for a cell: a Python number, or a Python string (text)
CellValues == [text : BOOLEAN, v : 0..MaxCell]

\* the rows given to add_row for a table with a primary key and two other columns
\* (table.columns_names): the key first, a number
KeyedRows == {<<k, a, b>> : k \in [text : {FALSE}, v : 0..MaxCell], a \in CellValues,
                            b \in CellValues}

\* DataBase.get_row_by_key: the stored rows of that key (one at most)
get_row_by_key(rows, key_value) == {r \in rows : r[1] = key_value}

\* DataBase.update_row: UPDATE ... SET n = v for n, v in zip(table.columns_names,
\* row) WHERE primary_key = row[0]. The names are those of the columns after the key
\* and the values are taken from the start of the row, so the column at place
\* i + 1 is given the value at place i, and the last value is left out; the values
\* are written without quotes, so a text among them is read as the name of a
\* column and the statement fails with sqlite3.OperationalError
update_row(rows, row) ==
    LET names == 2..Len(row)
    IN  IF \E i \in names : row[i - 1].text
        THEN [rows |-> rows, raised |-> "OperationalError"]
        ELSE [rows |-> {IF r[1] = row[1]
                        THEN [i \in 1..Len(row) |-> IF i \in names THEN row[i - 1] ELSE r[i]]
                        ELSE r : r \in rows},
              raised |-> "none"]

\* DataBase.add_row(table, row, auto_commit, update_if_exists): INSERT, and on the
\* sqlite3.IntegrityError of a key already stored update_row or the error
add_row_of_columns(rows, row, update_if_exists) ==
    IF get_row_by_key(rows, row[1]) = {}
    THEN [rows |-> rows \cup {row}, raised |-> "none"]
    ELSE IF update_if_exists
         THEN update_row(rows, row)
         ELSE [rows |-> rows, raised |-> "IntegrityError"]

\* a caller adds a row
table_add_row ==
    /\ \E row \in KeyedRows, update_if_exists \in BOOLEAN :
        LET added == add_row_of_columns(db, row, update_if_exists)
        IN  /\ db' = added.rows
            /\ obs' = [row |-> row, update_if_exists |-> update_if_exists,
                       occupied |-> get_row_by_key(db, row[1]) # {},
                       raised |-> added.raised]
    /\ UNCHANGED <<remote, run, script, outcome>>

\* DataBase.drop_table
table_drop ==
    /\ db # {}
    /\ db' = {}
    /\ obs' = [obs EXCEPT !.occupied = FALSE, !.raised = "none"]
    /\ UNCHANGED <<remote, run, script, outcome>>

InitRows ==
    /\ script = <<>>
    /\ outcome = NotCalled
    /\ db = {}
    /\ remote = {}
    /\ run = Idle
    /\ obs = [row |-> <<>>, update_if_exists |-> FALSE, occupied |-> FALSE,
              raised |-> "none"]

NextRows ==
    \/ table_add_row
    \/ table_drop

SpecRows == InitRows /\ [][NextRows]_vars

(***************************************************************************)
(* Claims about add_row with update_if_exists (checked under SpecRows)     *)
(***************************************************************************)

\* C18: add_row with update_if_exists=True of a row whose key is stored replaces
\* the stored row: afterwards get_row_by_key returns exactly the row given, every
\* column holding the value given for it, the number of rows is unchanged and no
\* other row is modified.
C18_UpdateReplacesRow ==
    [][(obs'.update_if_exists /\ obs'.occupied) =>
           /\ get_row_by_key(db', obs'.row[1]) = {obs'.row}
           /\ Cardinality(db') = Cardinality(db)
           /\ \A r \in db : r[1] # obs'.row[1] => r \in db']_vars

(***************************************************************************)
(* The trade syncs over every trading pair: update_all_spot_trades,        *)
(* update_all_cross_margin_trades, update_isolated_margin_trades           *)
(***************************************************************************)

\* the pairs the source lists (symbols_info), in the order it lists them
TradePairs == <<[asset |-> "BTC", ref_asset |-> "USDT"], [asset |-> "ETH", ref_asset |-> "USDT"]>>

TradeTypes == {"spot", "cross_margin", "isolated_margin"}

\* the operation that synchronises every pair of a trade type
AllTradesOp(trade_type) ==
    CASE trade_type = "spot" -> "update_all_spot_trades"
      [] trade_type = "cross_margin" -> "update_all_cross_margin_trades"
      [] trade_type = "isolated_margin" -> "update_isolated_margin_trades"

\* how a call of the client that goes around the guard can end: its one invocation
\* returns, or its BinanceAPIException reaches the caller, whatever its code
DirectEndings ==
    {[kind |-> IF a.ok THEN "return" ELSE "BinanceAPIException",
      err |-> IF a.ok THEN NoError ELSE a] : a \in Answers}

\* the endings of the call that lists the pairs: update_all_spot_trades calls
\* client.get_exchange_info itself, the two margin syncs go through the guard
SymbolsEndings(trade_type) == IF trade_type = "spot" THEN DirectEndings ELSE GuardEndings

\* a handler that takes every exception of a pair for an unknown pair
handles_any_exception(trade_type, g) ==
    trade_type = "isolated_margin" /\ g.kind # "return"

\* the handler around update_margin_symbol_trades in update_isolated_margin_trades:
\* `except BinanceAPIException as e: if e.code != -11001: raise e`; the two other
\* syncs have no handler
handles_unknown_pair(trade_type, g) ==
    /\ trade_type = "isolated_margin"
    /\ g.kind = "BinanceAPIException"
    /\ g.err.code = UNKNOWN_PAIR_CODE

\* what the claims read of these runs: how the last run ended and how its last
\* call of the source ended
ObsAllTrades0 == [ended |-> "none", last |-> [kind |-> "none", err |-> NoError]]

\* update_all_spot_trades(limit) / update_all_cross_margin_trades(limit) /
\* update_isolated_margin_trades() (which passes limit=1000), up to the call that
\* lists the pairs
update_all_trades(limit) ==
    /\ run = Idle
    /\ run' = [op |-> AllTradesOp(remote.trade_type), pc |-> "symbols", todo |-> <<>>,
               key |-> <<>>,
               limit |-> IF remote.trade_type = "isolated_margin" THEN 1000 ELSE limit,
               last_trade_id |-> -1, rows |-> <<>>, done |-> 0]
    /\ obs' = [obs EXCEPT !.ended = "running"]
    /\ UNCHANGED <<db, remote, script, outcome>>

\* symbols_info: the pairs of the source; an exception leaves the operation
fetch_symbols ==
    /\ run # Idle /\ run.op = AllTradesOp(remote.trade_type) /\ run.pc = "symbols"
    /\ \E g \in SymbolsEndings(remote.trade_type) :
        /\ obs' = [ended |-> IF g.kind = "return" THEN "running" ELSE "raised", last |-> g]
        /\ run' = IF g.kind = "return"
                  THEN [run EXCEPT !.todo = TradePairs, !.pc = "next_pair"]
                  ELSE Idle
    /\ UNCHANGED <<db, remote, script, outcome>>

\* `for symbol_info in symbols_info`: the end of the operation after the last pair,
\* else update_spot_symbol_trades / update_margin_symbol_trades of the next pair up
\* to its loop (the limit is capped and the cursor is read from the Store)
next_pair ==
    /\ run # Idle /\ run.op = AllTradesOp(remote.trade_type) /\ run.pc = "next_pair"
    /\ IF run.todo = <<>>
       THEN /\ run' = Idle
            /\ obs' = [obs EXCEPT !.ended = "completed"]
       ELSE LET pair == Head(run.todo)
            IN  /\ run' = [run EXCEPT
                             !.key = pair,
                             !.limit = Min2(TRADE_LIMIT_CAP, @),
                             !.last_trade_id = get_max_trade_id(db, pair.asset, pair.ref_asset,
                                                                remote.trade_type),
                             !.pc = "fetch"]
                /\ obs' = obs
    /\ UNCHANGED <<db, remote, script, outcome>>

\* the guarded fetch of one batch of the pair. An exception leaves the operation,
\* but for the one update_isolated_margin_trades handles: the sync goes on with
\* the next pair
fetch_pair_trades ==
    /\ run # Idle /\ run.op = AllTradesOp(remote.trade_type) /\ run.pc = "fetch"
    /\ \E g \in GuardEndings :
        /\ obs' = [ended |-> IF g.kind = "return" \/ handles_unknown_pair(remote.trade_type, g)
                             THEN "running" ELSE "raised",
                   last |-> g]
        /\ run' = IF g.kind = "return"
                  THEN [run EXCEPT
                          !.rows = get_trades_of_source(remote.ids[run.key],
                                                        from_id(run.last_trade_id), run.limit),
                          !.done = 0, !.pc = "insert"]
                  ELSE IF handles_unknown_pair(remote.trade_type, g)
                       THEN [run EXCEPT !.todo = Tail(@), !.pc = "next_pair"]
                       ELSE Idle
    /\ UNCHANGED <<db, remote, script, outcome>>

\* one turn of `for trade in new_trades`
insert_pair_trade ==
    /\ run # Idle /\ run.op = AllTradesOp(remote.trade_type) /\ run.pc = "insert"
    /\ run.done < Len(run.rows)
    /\ LET trade_id == run.rows[run.done + 1]
       IN  /\ db' = add_trade(db, remote.trade_type, trade_id, run.key.asset,
                              run.key.ref_asset).db
           /\ run' = [run EXCEPT !.done = @ + 1, !.last_trade_id = max_trade_id(@, trade_id)]
    /\ UNCHANGED <<remote, obs, script, outcome>>

\* after the batch: commit when it held a trade; when it was shorter than limit the
\* loop of the pair is left and the next pair follows
end_of_pair_batch ==
    /\ run # Idle /\ run.op = AllTradesOp(remote.trade_type) /\ run.pc = "insert"
    /\ run.done = Len(run.rows)
    /\ db' = IF Len(run.rows) > 0 THEN commit(db) ELSE db
    /\ run' = IF Len(run.rows) < run.limit
              THEN [run EXCEPT !.todo = Tail(@), !.pc = "next_pair", !.rows = <<>>,
                               !.done = 0]
              ELSE [run EXCEPT !.pc = "fetch", !.rows = <<>>, !.done = 0]
    /\ UNCHANGED <<remote, obs, script, outcome>>

\* the account trades on a pair: the source assigns a larger id
new_pair_trade ==
    /\ \E pair \in {TradePairs[k] : k \in DOMAIN TradePairs}, i \in 0..MaxTradeId :
        /\ \A j \in remote.ids[pair] : j < i
        /\ remote' = [remote EXCEPT !.ids[pair] = @ \cup {i}]
    /\ UNCHANGED <<db, run, obs, script, outcome>>

\* an exception reaches the caller in the middle of the operation
interrupt_all_trades ==
    /\ run # Idle
    /\ run' = Idle
    /\ obs' = [obs EXCEPT !.ended = "interrupted"]
    /\ UNCHANGED <<db, remote, script, outcome>>

\* the process ends and a new one opens the database
exit_all_trades ==
    /\ db' = [db EXCEPT !.pending = EmptyBag]
    /\ run' = Idle
    /\ obs' = [obs EXCEPT !.ended = IF run = Idle THEN @ ELSE "killed"]
    /\ UNCHANGED <<remote, script, outcome>>

InitAllTrades ==
    /\ script = <<>>
    /\ outcome = NotCalled
    /\ db = EmptyStore
    /\ \E trade_type \in TradeTypes :
          remote = [trade_type |-> trade_type,
                    ids |-> [pair \in {TradePairs[k] : k \in DOMAIN TradePairs} |-> {}]]
    /\ run = Idle
    /\ obs = ObsAllTrades0

NextAllTrades ==
    \/ \E limit \in 0..MaxLimit : update_all_trades(limit)
    \/ fetch_symbols
    \/ next_pair
    \/ fetch_pair_trades
    \/ insert_pair_trade
    \/ end_of_pair_batch
    \/ new_pair_trade
    \/ interrupt_all_trades
    \/ exit_all_trades

SpecAllTrades == InitAllTrades /\ [][NextAllTrades]_vars

(***************************************************************************)
(* Claims about the trade syncs over every pair (checked under             *)
(* SpecAllTrades)                                                          *)
(***************************************************************************)

\* the step is the fetch of a batch of the pair run.key
PairFetched ==
    /\ run # Idle /\ run.pc = "fetch" /\ run' # run
    /\ obs'.ended \in {"running", "raised"}

\* the fetch of the step ended with a BinanceAPIException
PairFetchFailed == PairFetched /\ obs'.last.kind = "BinanceAPIException"

\* C21: when the fetch of the trades of a pair that was never traded fails with the
\* 'unknown pair' error (code -11001), the sync of spot, cross-margin or isolated-
\* margin trades stores nothing, takes the pair for one without trades and goes on
\* with the next pair; a BinanceAPIException of another code leaves the sync.
C21_UnknownPairIsZeroTrades ==
    [][/\ (PairFetchFailed /\ obs'.last.err.code = -11001 /\ remote.ids[run.key] = {}) =>
              /\ db' = db
              /\ obs'.ended = "running"
              /\ run' # Idle /\ run'.pc = "next_pair" /\ run'.todo = Tail(run.todo)
       /\ (PairFetchFailed /\ obs'.last.err.code # -11001) =>
              /\ db' = db
              /\ obs'.ended = "raised"
              /\ run' = Idle]_vars

\* the step is the end of a fetched batch of the pair run.key, all its trades
\* inserted
BatchEnded ==
    /\ run # Idle /\ run.pc = "insert" /\ run.done = Len(run.rows)
    /\ run' # Idle /\ run' # run

\* C23: the sync of the trades of a pair stops after the first fetched batch that
\* is shorter than the effective limit, and after an empty batch whatever the limit
\* the caller gave; it fetches again only after a batch of exactly `limit` trades.
C23_StopsAfterShortBatch ==
    [][BatchEnded =>
           /\ Len(run.rows) < run.limit => run'.pc = "next_pair"
           /\ Len(run.rows) = 0 => run'.pc = "next_pair"
           /\ run'.pc = "fetch" => Len(run.rows) = run.limit]_vars

(***************************************************************************)
(* The transfers of an isolated margin symbol:                             *)
(* update_isolated_symbol_transfers                                        *)
(***************************************************************************)

\* the isolated symbol synchronised in the model
TransferSymbol == "BTCUSDT"

\* (transFrom, transTo) of a remote transfer: into the isolated account, out of
\* it, and a combination that is neither
TransferEnds ==
    {<<"SPOT", "ISOLATED_MARGIN">>, <<"ISOLATED_MARGIN", "SPOT">>, <<"SPOT", "SPOT">>}

\* the chain of tests on (transfer['transFrom'], transfer['transTo']), as written:
\* the second test repeats the first
transfer_type_of(transFrom, transTo) ==
    IF <<transFrom, transTo>> = <<"SPOT", "ISOLATED_MARGIN">> THEN "IN"
    ELSE IF <<transFrom, transTo>> = <<"SPOT", "ISOLATED_MARGIN">> THEN "OUT"
    ELSE "ValueError"

\* BinanceDataBase.add_isolated_transfer(..., auto_commit=False): the row carries
\* the transfer type next to the columns of every row
add_isolated_transfer(d, transfer_id, transfer_type, transfer_time, isolated_symbol) ==
    add_row(d, Row("isolated_margin_transfer_table", <<isolated_symbol>>, transfer_id,
                   transfer_time) @@ [type |-> transfer_type], FALSE)

\* what the claims read of the transfer runs: how the last run ended
ObsTransfers0 == [ended |-> "none"]

\* update_isolated_symbol_transfers(isolated_symbol), up to the loop
update_isolated_symbol_transfers ==
    /\ run = Idle
    /\ run' = [op |-> "update_isolated_symbol_transfers", pc |-> "fetch",
               isolated_symbol |-> TransferSymbol,
               latest_time |-> get_last_isolated_transfer_time(db, TransferSymbol),
               current |-> 1, rows |-> <<>>, done |-> 0]
    /\ obs' = [ended |-> "running"]
    /\ UNCHANGED <<db, remote, script, outcome>>

\* the guarded fetch of one page from 'startTime': latest_time + 1; an exception of
\* the guard leaves the operation, and so does the KeyError of transfers['rows']
fetch_transfers ==
    /\ run # Idle /\ run.op = "update_isolated_symbol_transfers" /\ run.pc = "fetch"
    /\ \E g \in GuardEndings, has_rows \in BOOLEAN :
        IF g.kind = "return" /\ has_rows
        THEN /\ run' = [run EXCEPT
                          !.rows = get_history(remote.recs, remote.order,
                                               run.latest_time + 1, run.current, PageSize),
                          !.done = 0, !.pc = "insert"]
             /\ obs' = obs
        ELSE /\ run' = Idle
             /\ obs' = [ended |-> IF g.kind = "return" THEN "KeyError" ELSE "raised"]
    /\ UNCHANGED <<db, remote, script, outcome>>

\* one turn of `for transfer in transfers['rows']`: the direction is told from
\* (transFrom, transTo) and the row is inserted without commit; the ValueError of
\* an unrecognised transfer leaves the operation, and so does the IntegrityError of
\* a key already stored
insert_transfer ==
    /\ run # Idle /\ run.op = "update_isolated_symbol_transfers" /\ run.pc = "insert"
    /\ run.done < Len(run.rows)
    /\ LET transfer == run.rows[run.done + 1]
           transfer_type == transfer_type_of(transfer.ends[1], transfer.ends[2])
           added == add_isolated_transfer(db, transfer.time, transfer_type, transfer.time,
                                          run.isolated_symbol)
       IN  IF transfer_type = "ValueError"
           THEN /\ db' = db
                /\ run' = Idle
                /\ obs' = [ended |-> "ValueError"]
           ELSE /\ db' = added.db
                /\ IF added.raised = "none"
                   THEN /\ run' = [run EXCEPT !.done = @ + 1]
                        /\ obs' = obs
                   ELSE /\ run' = Idle
                        /\ obs' = [ended |-> "raised"]
    /\ UNCHANGED <<remote, script, outcome>>

\* after the rows of the page: the next page and a commit when the page held rows,
\* else the end
end_of_transfer_page ==
    /\ run # Idle /\ run.op = "update_isolated_symbol_transfers" /\ run.pc = "insert"
    /\ run.done = Len(run.rows)
    /\ IF Len(run.rows) > 0
       THEN /\ db' = commit(db)
            /\ run' = [run EXCEPT !.current = @ + 1, !.pc = "fetch", !.rows = <<>>,
                                  !.done = 0]
            /\ obs' = obs
       ELSE /\ db' = db
            /\ run' = Idle
            /\ obs' = [ended |-> "completed"]
    /\ UNCHANGED <<remote, script, outcome>>

\* the account moves funds: the source records a transfer of the symbol, one
\* millisecond after the last one it holds
new_remote_transfer ==
    /\ \E ends \in TransferEnds :
        LET k == Cardinality(remote.recs) + 1
        IN  /\ k <= MaxHistoryTime
            /\ remote' = [remote EXCEPT !.recs = @ \cup {[time |-> k, ends |-> ends]}]
    /\ UNCHANGED <<db, run, obs, script, outcome>>

\* an exception reaches the caller in the middle of the operation
interrupt_transfers ==
    /\ run # Idle
    /\ run' = Idle
    /\ obs' = [ended |-> "interrupted"]
    /\ UNCHANGED <<db, remote, script, outcome>>

\* the process ends and a new one opens the database
exit_transfers ==
    /\ db' = [db EXCEPT !.pending = EmptyBag]
    /\ run' = Idle
    /\ obs' = IF run = Idle THEN obs ELSE [ended |-> "killed"]
    /\ UNCHANGED <<remote, script, outcome>>

InitIsolatedTransfers ==
    /\ script = <<>>
    /\ outcome = NotCalled
    /\ db = EmptyStore
    /\ remote \in [order : {"asc", "desc"}, recs : {{}}]
    /\ run = Idle
    /\ obs = ObsTransfers0

NextIsolatedTransfers ==
    \/ update_isolated_symbol_transfers
    \/ fetch_transfers
    \/ insert_transfer
    \/ end_of_transfer_page
    \/ new_remote_transfer
    \/ interrupt_transfers
    \/ exit_transfers

SpecIsolatedTransfers == InitIsolatedTransfers /\ [][NextIsolatedTransfers]_vars

(***************************************************************************)
(* Claims about the isolated transfers (checked under                      *)
(* SpecIsolatedTransfers)                                                  *)
(***************************************************************************)

\* the step is the turn of the loop for the transfer at hand, whose key is not
\* stored yet
TransferHandled ==
    /\ run # Idle /\ run.pc = "insert" /\ run.done < Len(run.rows)
    /\ run' # run
    /\ obs'.ended \notin {"interrupted", "killed"}
    /\ \A r \in TableRows(db, "isolated_margin_transfer_table") :
           r.id # run.rows[run.done + 1].time

\* the Store d holds the transfer under the given type
StoredAs(d, transfer, transfer_type) ==
    \E r \in DOMAIN d.pending :
        /\ r.tbl = "isolated_margin_transfer_table"
        /\ r.scope = <<run.isolated_symbol>>
        /\ r.id = transfer.time /\ r.time = transfer.time
        /\ r.type = transfer_type

\* C25: update_isolated_symbol_transfers stores a transfer from SPOT to
\* ISOLATED_MARGIN as type 'IN' and one from ISOLATED_MARGIN to SPOT as type 'OUT',
\* going on with the next transfer in both cases; only another combination is
\* rejected as unrecognised.
C25_TransferDirection ==
    [][TransferHandled =>
           LET transfer == run.rows[run.done + 1]
           IN  /\ transfer.ends = <<"SPOT", "ISOLATED_MARGIN">> =>
                      StoredAs(db', transfer, "IN") /\ run' # Idle
               /\ transfer.ends = <<"ISOLATED_MARGIN", "SPOT">> =>
                      StoredAs(db', transfer, "OUT") /\ run' # Idle
               /\ transfer.ends \notin {<<"SPOT", "ISOLATED_MARGIN">>,
                                        <<"ISOLATED_MARGIN", "SPOT">>} =>
                      db' = db /\ run' = Idle /\ obs'.ended = "ValueError"]_vars

(***************************************************************************)
(* DataBase over declared tables: the CREATE TABLE command, the values of  *)
(* a row as they are written into a command and as sqlite stores them      *)
(***************************************************************************)

\* Table(name, columns_names, columns_sql_types, primary_key, primary_key_sql_type)
Table(name, columns_names, columns_sql_types, primary_key, primary_key_sql_type) ==
    [name |-> name, columns_names |-> columns_names,
     columns_sql_types |-> columns_sql_types,
     primary_key |-> primary_key, primary_key_sql_type |-> primary_key_sql_type]

\* one piece of the command text: the declaration of a column,
\* "[name] type" or "[name] type PRIMARY KEY", or the ", " that follows it
ColumnPiece(name, sql_type, primary_key) ==
    [piece |-> "column", name |-> name, sql_type |-> sql_type, primary_key |-> primary_key]

CommaPiece == [piece |-> ", ", name |-> "", sql_type |-> "", primary_key |-> FALSE]

\* cmd[:-2]: the text without its last two characters, the ", " after the last
\* declaration (nothing is cut from an empty text)
AllButLast(cmd) == IF cmd = <<>> THEN <<>> ELSE SubSeq(cmd, 1, Len(cmd) - 1)

\* the declarations of zip(table.columns_names, table.columns_sql_types)
RECURSIVE ZippedColumns(_, _)
ZippedColumns(names, sql_types) ==
    IF names = <<>> \/ sql_types = <<>> THEN <<>>
    ELSE <<ColumnPiece(Head(names), Head(sql_types), FALSE), CommaPiece>>
         \o ZippedColumns(Tail(names), Tail(sql_types))

\* the older get_create_cmd: the first declared column is the primary key
get_create_cmd_first_column_key(table) ==
    LET cmd == ZippedColumns(table.columns_names, table.columns_sql_types)
    IN  [name |-> table.name,
         columns |-> AllButLast(IF cmd = <<>> THEN cmd
                                ELSE [cmd EXCEPT ![1].primary_key = TRUE])]

\* DataBase.get_create_cmd: "CREATE TABLE {table.name}\n({cmd[:-2]})"
get_create_cmd(table) ==
    LET key == IF table.primary_key # None
               THEN <<ColumnPiece(table.primary_key, table.primary_key_sql_type, TRUE),
                      CommaPiece>>
               ELSE <<>>
        cmd == key \o ZippedColumns(table.columns_names, table.columns_sql_types)
    IN  [name |-> table.name, columns |-> AllButLast(cmd)]

\* the columns sqlite creates for a command: its declarations, in order
ColumnsOf(create_cmd) == SelectSeq(create_cmd.columns, LAMBDA p : p.piece = "column")

\* the tables of the tests, table1 with the primary key `key` and table2 without,
\* with the columns age and surname
table1 == Table("test_table1", <<"age", "surname">>, <<"INTEGER", "TEXT">>, "key", "INTEGER")

table2 == Table("test_table2", <<"age", "surname">>, <<"INTEGER", "TEXT">>, None, None)

\* the names and SQL types a declared table draws its columns from
ColumnNames == {"age", "surname", "weight"}

SqlTypes == {"INTEGER", "TEXT"}

\* the bound of the model on the declared columns of a table
MaxColumns == 2

\* the sequences without repetition of at most n elements of S
RECURSIVE DistinctSeqs(_, _)
DistinctSeqs(S, n) ==
    IF n = 0 THEN {<<>>}
    ELSE {<<>>} \cup UNION {{<<x>> \o q : q \in {r \in DistinctSeqs(S, n - 1) :
                                                  \A i \in DOMAIN r : r[i] # x}} :
                            x \in S}

\* the tables a caller can declare in the model: columns of distinct names
\* (Table.__init__ raises on a name met twice), a type for each of them, and a
\* primary key or none
DeclaredTables ==
    UNION {{Table("t", names, sql_types, key[1], key[2]) :
               sql_types \in [1..Len(names) -> SqlTypes],
               key \in {<<None, None>>} \cup {<<"key", t>> : t \in SqlTypes}} :
           names \in DistinctSeqs(ColumnNames, MaxColumns)}

\* ---- SpecCreate: a table is declared and its command is executed ----

\* create_table: the command of get_create_cmd is executed and committed; the
\* Store holds the columns the command declares
create_table_cmd ==
    /\ db = <<>>
    /\ db' = ColumnsOf(get_create_cmd(remote))
    /\ obs' = get_create_cmd(remote)
    /\ UNCHANGED <<script, outcome, remote, run>>

\* drop_table: the table is gone
drop_table_cmd ==
    /\ db # <<>>
    /\ db' = <<>>
    /\ UNCHANGED <<script, outcome, remote, run, obs>>

\* the ghost of SpecCreate: the last command get_create_cmd returned
ObsCreate0 == [name |-> "", columns |-> <<>>]

InitCreate ==
    /\ script = <<>> /\ outcome = NotCalled /\ run = Idle
    /\ remote \in DeclaredTables
    /\ db = <<>>
    /\ obs = ObsCreate0

NextCreate == create_table_cmd \/ drop_table_cmd

SpecCreate == InitCreate /\ [][NextCreate]_vars

\* ---- the values of a row, in Python, in a command and in the Store ----

\* the texts of the model in their order as strings: the decimal writing of a
\* number, a name, and the writing of Python's None
Texts == <<"0", "1", "2", "3", "Karl", "None">>

\* the keys given for a row are 0..MaxKey
MaxKey == 1

\* the values of Python given for a cell: an int, a str, None, each with its
\* type and its writing
PyInt(n) == [py |-> "int", v |-> Texts[n + 1]]

PyStr(text) == [py |-> "str", v |-> text]

PyNone == [py |-> "NoneType", v |-> "None"]

\* the value of a stored cell: sqlite stores an integer or a text, held here
\* with its storage class and its writing
Cell(storage, v) == [st |-> storage, v |-> v]

\* f"{v}": str() of a value of Python
python_str(value) == value.v

\* f"'{v}'": the value written into a command as a text literal
text_literal(value) == Cell("text", python_str(value))

\* f"{v}" without quotes in a command: a number is a numeric literal, anything
\* else is read as the name of a column
bare_literal(value) ==
    IF value.py = "int" THEN Cell("integer", python_str(value))
    ELSE Cell("name", python_str(value))

\* a text that is the decimal writing of an integer, and that integer
looks_like_integer(text) == \E n \in 0..3 : Texts[n + 1] = text

int_of_text(text) == CHOOSE n \in 0..3 : Texts[n + 1] = text

\* the affinity of a column applied to a literal: a column of type INTEGER turns
\* a text that is the writing of an integer into that integer, a column of type
\* TEXT turns a number into its writing, anything else stays as it is
with_affinity(sql_type, literal) ==
    IF sql_type = "INTEGER" /\ literal.st = "text" /\ looks_like_integer(literal.v)
    THEN Cell("integer", literal.v)
    ELSE IF sql_type = "TEXT" /\ literal.st = "integer"
         THEN Cell("text", literal.v)
         ELSE literal

\* the value of Python a cursor returns for a stored cell
python_value(cell) ==
    IF cell.st = "integer" THEN PyInt(int_of_text(cell.v)) ELSE PyStr(cell.v)

\* the row a cursor returns for a stored row
python_row(stored) == [i \in DOMAIN stored |-> python_value(stored[i])]

\* the Store of one table, as the connection sees it: the columns it was created
\* with (none: there is no such table) and its rows
NoTable == [columns |-> <<>>, rows |-> EmptyBag]

\* the place of the PRIMARY KEY column among the columns, 0 when there is none
KeyPlace(columns) ==
    IF \E i \in DOMAIN columns : columns[i].primary_key
    THEN CHOOSE i \in DOMAIN columns : columns[i].primary_key
    ELSE 0

\* INSERT INTO table VALUES ('v', ...) executed: sqlite3.OperationalError without
\* the table or with another number of values than columns,
\* sqlite3.IntegrityError with a primary key that is stored already, else one
\* more row, each value with the affinity of its column
execute_insert(d, row) ==
    LET stored == [i \in DOMAIN row |->
                      with_affinity(d.columns[i].sql_type, text_literal(row[i]))]
        k == KeyPlace(d.columns)
    IN  IF d.columns = <<>> \/ Len(row) # Len(d.columns)
        THEN [db |-> d, raised |-> "OperationalError"]
        ELSE IF k # 0 /\ \E r \in BagToSet(d.rows) : r[k] = stored[k]
             THEN [db |-> d, raised |-> "IntegrityError"]
             ELSE [db |-> [d EXCEPT !.rows = @ (+) SetToBag({stored})], raised |-> "none"]

\* DataBase.create_table on the Store of one table
create_table_of(d, table) ==
    IF d.columns # <<>> THEN [db |-> d, raised |-> "OperationalError"]
    ELSE [db |-> [d EXCEPT !.columns = ColumnsOf(get_create_cmd(table))], raised |-> "none"]

\* DataBase.update_row with the values of the row written without quotes:
\* UPDATE table SET n = v, ... for n, v in zip(table.columns_names, row)
\* WHERE primary_key = row[0]. A value that is not a number is read as the name of
\* a column and the statement fails with sqlite3.OperationalError when there is
\* no such column
update_row_values(d, table, row) ==
    LET n == Min2(Len(table.columns_names), Len(row))
        place(name) == CHOOSE i \in DOMAIN d.columns : d.columns[i].name = name
        k == place(table.primary_key)
        names == {d.columns[i].name : i \in DOMAIN d.columns}
        set == {place(table.columns_names[i]) : i \in 1..n}
        given(j) == bare_literal(row[CHOOSE i \in 1..n : place(table.columns_names[i]) = j])
    IN  IF \E i \in 1..n : bare_literal(row[i]).st = "name" /\ bare_literal(row[i]).v \notin names
        THEN [db |-> d, raised |-> "OperationalError"]
        ELSE LET updated(r) ==
                     IF r[k] # with_affinity(d.columns[k].sql_type, bare_literal(row[1])) THEN r
                     ELSE [j \in DOMAIN r |->
                              IF j \notin set THEN r[j]
                              ELSE IF given(j).st = "name" THEN r[place(given(j).v)]
                              ELSE with_affinity(d.columns[j].sql_type, given(j))]
             IN  [db |-> [d EXCEPT !.rows =
                              BagOfAll(updated, d.rows)],
                  raised |-> "none"]

\* DataBase.add_row(table, row, update_if_exists) on the Store of one table: the
\* INSERT, after create_table when it fails with sqlite3.OperationalError, and
\* on sqlite3.IntegrityError update_row or the error
add_row_values(d, table, row, update_if_exists) ==
    LET first == execute_insert(d, row)
    IN  IF first.raised = "OperationalError"
        THEN LET created == create_table_of(d, table)
             IN  IF created.raised # "none" THEN created
                 ELSE execute_insert(created.db, row)
        ELSE IF first.raised = "IntegrityError" /\ update_if_exists
             THEN update_row_values(d, table, row)
             ELSE first

\* ---- the SELECT commands of DataBase ----

\* SQLConditionEnum
SQLConditionEnum == {"=", ">=", ">", "<", "<=", "!="}

\* the place of a text in the order of the strings
TextRank(text) == CHOOSE i \in DOMAIN Texts : Texts[i] = text

\* the order of sqlite on stored values: a number is below a text, numbers are
\* in numeric order, texts in the order of the strings
CellLess(a, b) ==
    IF a.st = b.st
    THEN IF a.st = "integer" THEN int_of_text(a.v) < int_of_text(b.v)
         ELSE TextRank(a.v) < TextRank(b.v)
    ELSE a.st = "integer"

CellEqual(a, b) == a.st = b.st /\ a.v = b.v

\* a comparison `column condition literal` of a command on a stored value
sql_compare(cell, condition, literal) ==
    CASE condition = "="  -> CellEqual(cell, literal)
      [] condition = "!=" -> ~CellEqual(cell, literal)
      [] condition = "<"  -> CellLess(cell, literal)
      [] condition = "<=" -> CellLess(cell, literal) \/ CellEqual(cell, literal)
      [] condition = ">"  -> CellLess(literal, cell)
      [] condition = ">=" -> CellLess(literal, cell) \/ CellEqual(cell, literal)

\* one piece of a WHERE clause: " column condition 'value'" or the " AND" after it
ConditionPiece(column_name, condition, value) ==
    [piece |-> "condition", column |-> column_name, condition |-> condition,
     literal |-> text_literal(value)]

AndPiece == [piece |-> " AND", column |-> "", condition |-> "", literal |-> Cell("text", "")]

\* the clause of the first condition of the list alone
_add_conditions_first_only(conditions_list) ==
    IF conditions_list = <<>> THEN <<>>
    ELSE <<ConditionPiece(conditions_list[1][1], conditions_list[1][2], conditions_list[1][3])>>

\* DataBase._add_conditions: ' WHERE' and, for each condition of the list,
\* " column condition 'value' AND", without the last " AND" (add_cmd[:-4]);
\* nothing for an empty list
RECURSIVE ConditionPieces(_)
ConditionPieces(conditions_list) ==
    IF conditions_list = <<>> THEN <<>>
    ELSE <<ConditionPiece(conditions_list[1][1], conditions_list[1][2], conditions_list[1][3]),
           AndPiece>> \o ConditionPieces(Tail(conditions_list))

_add_conditions(conditions_list) == AllButLast(ConditionPieces(conditions_list))

\* DataBase._add_order: ' ORDER BY column, ..., column ASC', nothing for an empty list
_add_order(order_list) == order_list

\* the columns a command names are columns of the table
KnownColumns(d, names) == \A n \in names : \E i \in DOMAIN d.columns : d.columns[i].name = n

ColumnPlace(d, name) == CHOOSE i \in DOMAIN d.columns : d.columns[i].name = name

\* a stored row passes a WHERE clause: every comparison of the clause holds, the
\* literal of each taken with the affinity of its column
Passes(d, stored, where) ==
    \A i \in DOMAIN where :
        where[i].piece = "condition" =>
            LET j == ColumnPlace(d, where[i].column)
            IN  sql_compare(stored[j], where[i].condition,
                            with_affinity(d.columns[j].sql_type, where[i].literal))

\* a row comes before another one under ORDER BY order ASC
RECURSIVE RowLess(_, _, _, _)
RowLess(d, order, a, b) ==
    IF order = <<>> THEN FALSE
    ELSE LET j == ColumnPlace(d, Head(order))
         IN  \/ CellLess(a[j], b[j])
             \/ CellEqual(a[j], b[j]) /\ RowLess(d, Tail(order), a, b)

\* the rows of a bag one after the other, in the order of ORDER BY (rows the
\* order does not tell apart come in some order)
RECURSIVE RowsInOrder(_, _, _)
RowsInOrder(d, order, rows) ==
    IF rows = EmptyBag THEN <<>>
    ELSE LET first == CHOOSE r \in BagToSet(rows) :
                          \A q \in BagToSet(rows) : ~RowLess(d, order, q, r)
         IN  <<first>> \o RowsInOrder(d, order, rows (-) SetToBag({first}))

\* the largest value of a sequence of values, in the order of sqlite
RECURSIVE MaxCellOf(_)
MaxCellOf(cells) ==
    IF Len(cells) = 1 THEN cells[1]
    ELSE LET rest == MaxCellOf(Tail(cells))
         IN  IF CellLess(rest, cells[1]) THEN cells[1] ELSE rest

\* the selections of the model: '*' and 'MAX(column)'
Star == [aggregate |-> "", column |-> "*"]

MaxOf(column_name) == [aggregate |-> "MAX", column |-> column_name]

\* DataBase._fetch_rows on "SELECT selection from table WHERE ... ORDER BY ...":
\* the rows the cursor returns, none after sqlite3.OperationalError (no such table,
\* no such column)
fetch_selected_rows(d, selection, where, order) ==
    LET named == {where[i].column : i \in {i \in DOMAIN where : where[i].piece = "condition"}}
                 \cup {order[i] : i \in DOMAIN order}
                 \cup (IF selection = Star THEN {} ELSE {selection.column})
        passing == RowsInOrder(d, order,
                       [r \in {q \in BagToSet(d.rows) : Passes(d, q, where)}
                          |-> d.rows[r]])
    IN  IF d.columns = <<>> \/ ~KnownColumns(d, named) THEN <<>>
        ELSE IF selection = Star THEN [i \in DOMAIN passing |-> python_row(passing[i])]
        ELSE IF passing = <<>> THEN <<<<PyNone>>>>
        ELSE LET j == ColumnPlace(d, selection.column)
             IN  <<<<python_value(MaxCellOf([i \in DOMAIN passing |-> passing[i][j]]))>>>>

\* DataBase.get_conditions_rows(table, selection, conditions_list, order_list)
get_conditions_rows(d, selection, conditions_list, order_list) ==
    fetch_selected_rows(d, selection, _add_conditions(conditions_list), _add_order(order_list))

\* the answer of get_row_by_key: a row, Python's None, or the ValueError raised
Answer(raised, rows) == [raised |-> raised, rows |-> rows]

\* get_row_by_key that looks the key up in the first column of any table
get_row_by_first_column(d, table, key_value) ==
    LET rows == get_conditions_rows(d, Star, <<<<d.columns[1].name, "=", key_value>>>>, <<>>)
    IN  IF d.columns = <<>> \/ Len(rows) = 0 THEN Answer("none", <<>>)
        ELSE Answer("none", <<rows[1]>>)

\* DataBase.get_row_by_key(table, key_value)
get_row_by_key_value(d, table, key_value) ==
    IF table.primary_key = None THEN Answer("ValueError", <<>>)
    ELSE LET rows == get_conditions_rows(d, Star, <<<<table.primary_key, "=", key_value>>>>, <<>>)
         IN  IF Len(rows) > 0 THEN Answer("none", <<rows[1]>>) ELSE Answer("none", <<>>)

\* ---- SpecTables: rows are added to a table of the tests and looked up ----

\* the rows a caller gives for a table of the tests: the key first when the table
\* has one, then an age and a surname: a number and a name, a number and a text
\* that is the writing of a number, None and a name
PyRows(table) ==
    LET columns == {<<PyInt(n), PyStr("Karl")>> : n \in 0..MaxCell}
                   \cup {<<PyInt(0), PyStr("1")>>, <<PyNone, PyStr("Karl")>>}
    IN  IF table.primary_key = None THEN columns
        ELSE {<<PyInt(k)>> \o c : k \in 0..MaxKey, c \in columns}

\* the ghost of SpecTables: the last call (its name, the key it looked up, what
\* it raised, what it returned), the rows of Python the table has accepted since
\* it was dropped last, and whether one of them was updated since
ObsTables0 ==
    [op |-> "none", key |-> <<>>, raised |-> "none", answer |-> <<>>,
     given |-> EmptyBag, updated |-> FALSE]

\* the ghost after add_row(table, row, update_if_exists) ended as `added`
AfterAddRow(d, row, added) ==
    LET inserted == added.raised = "none" /\ BagCardinality(added.db.rows) > BagCardinality(d.rows)
    IN  [op |-> "add_rows", key |-> <<>>, raised |-> added.raised, answer |-> <<>>,
         given |-> IF inserted THEN obs.given (+) SetToBag({row}) ELSE obs.given,
         updated |-> obs.updated \/ (added.raised = "none" /\ ~inserted)]

\* the rows the model can still add to the table
RoomOf(d) == MaxRows - BagCardinality(d.rows)

\* a caller adds rows, DataBase.add_rows: the call with a list of n rows
table_add_rows ==
    /\ run = Idle
    /\ \E n \in 1..RoomOf(db), update_if_exists \in BOOLEAN :
        run' = [op |-> "add_rows", left |-> n, update_if_exists |-> update_if_exists]
    /\ UNCHANGED <<script, outcome, remote, db, obs>>

\* add_rows: add_row of the next row of the list; an error ends the call, and so
\* does the last row (with the commit)
table_add_rows_row ==
    /\ run # Idle
    /\ \E row \in PyRows(remote) :
        LET added == add_row_values(db, remote, row, run.update_if_exists)
        IN  /\ db' = added.db
            /\ obs' = AfterAddRow(db, row, added)
            /\ run' = IF added.raised # "none" \/ run.left = 1 THEN Idle
                      ELSE [run EXCEPT !.left = @ - 1]
    /\ UNCHANGED <<script, outcome, remote>>

\* a caller looks a key up: DataBase.get_row_by_key
table_get_row_by_key ==
    /\ run = Idle
    /\ \E k \in 0..MaxKey :
        LET answer == get_row_by_key_value(db, remote, PyInt(k))
        IN  obs' = [obs EXCEPT !.op = "get_row_by_key", !.key = <<PyInt(k)>>,
                               !.raised = answer.raised, !.answer = answer.rows]
    /\ UNCHANGED <<script, outcome, remote, db, run>>

\* a caller drops the table: DataBase.drop_table
table_drop_values ==
    /\ run = Idle
    /\ db # NoTable
    /\ db' = NoTable
    /\ obs' = [ObsTables0 EXCEPT !.op = "drop_table"]
    /\ UNCHANGED <<script, outcome, remote, run>>

InitTables ==
    /\ script = <<>> /\ outcome = NotCalled /\ run = Idle
    /\ remote \in {table1, table2}
    /\ db = NoTable
    /\ obs = ObsTables0

NextTables ==
    \/ table_add_rows
    \/ table_add_rows_row
    \/ table_get_row_by_key
    \/ table_drop_values

SpecTables == InitTables /\ [][NextTables]_vars

\* ---- SpecQueries: a query on the table of the tests without a primary key ----

\* the conditions of the model on a column: every comparison of SQLConditionEnum
\* with a value of the type of the column
ConditionsOn(column_name) ==
    LET values == IF column_name = "age" THEN {PyInt(0), PyInt(MaxCell)}
                  ELSE {PyStr("Karl"), PyStr("1")}
    IN  {<<column_name, condition, value>> : condition \in SQLConditionEnum, value \in values}

\* the queries of the model: '*' with no condition, a condition on one column or
\* one on each column, in no order or in an order of the columns, and MAX(column)
\* with no condition
Queries ==
    [selection : {Star},
     conditions_list : {<<>>} \cup {<<c>> : c \in ConditionsOn("age") \cup ConditionsOn("surname")}
                       \cup {<<c, e>> : c \in ConditionsOn("age"), e \in ConditionsOn("surname")},
     order_list : {<<>>, <<"age">>, <<"surname", "age">>}]
    \cup [selection : {MaxOf("age"), MaxOf("surname")}, conditions_list : {<<>>},
          order_list : {<<>>}]

\* the ghost of SpecQueries: the answer of the query on the table as it is
ObsQueries0 == [asked |-> FALSE, answer |-> <<>>]

\* a caller adds a row to the table, which holds one row more than MaxRows at most
query_add_row ==
    /\ \E row \in PyRows(table2) :
        LET added == add_row_values(db, table2, row, FALSE)
        IN  /\ RoomOf(added.db) + 1 >= 0
            /\ db' = added.db
    /\ obs' = ObsQueries0
    /\ UNCHANGED <<script, outcome, remote, run>>

\* the caller makes the query: DataBase.get_conditions_rows
query_get_conditions_rows ==
    /\ obs' = [asked |-> TRUE,
               answer |-> get_conditions_rows(db, remote.selection, remote.conditions_list,
                                              remote.order_list)]
    /\ UNCHANGED <<script, outcome, remote, db, run>>

InitQueries ==
    /\ script = <<>> /\ outcome = NotCalled /\ run = Idle
    /\ remote \in Queries
    /\ db = NoTable
    /\ obs = ObsQueries0

NextQueries == query_add_row \/ query_get_conditions_rows

SpecQueries == InitQueries /\ [][NextQueries]_vars

\* ---- SpecCreate: claims ----

\* the i-th declaration the command of a table has to hold: the primary key
\* first when there is one, then the declared columns
ExpectedDeclaration(table, i) ==
    LET k == IF table.primary_key # None THEN 1 ELSE 0
    IN  IF k = 1 /\ i = 1
        THEN [piece |-> "column", name |-> table.primary_key,
              sql_type |-> table.primary_key_sql_type, primary_key |-> TRUE]
        ELSE [piece |-> "column", name |-> table.columns_names[i - k],
              sql_type |-> table.columns_sql_types[i - k], primary_key |-> FALSE]

\* C29: the command get_create_cmd returns names the table, declares the
\* primary key column first and marks it, and only it, PRIMARY KEY, then declares
\* the columns of the table in their order, each with its type, a ", " between
\* two declarations and none after the last; without a primary key no
\* declaration is marked PRIMARY KEY. The created table has these columns.
C29_CreateCommandLayout ==
    obs # ObsCreate0 =>
        LET n == Len(remote.columns_names) + (IF remote.primary_key # None THEN 1 ELSE 0)
        IN  /\ obs.name = remote.name
            /\ Len(obs.columns) = IF n = 0 THEN 0 ELSE 2 * n - 1
            /\ \A i \in 1..n : obs.columns[2 * i - 1] = ExpectedDeclaration(remote, i)
            /\ \A i \in 1..(n - 1) : obs.columns[2 * i] = CommaPiece
            /\ \A i \in DOMAIN obs.columns :
                   obs.columns[i].primary_key => i = 1 /\ remote.primary_key # None
            /\ db # <<>> => db = [i \in 1..n |-> ExpectedDeclaration(remote, i)]

\* a table with a primary key and two columns has been created
C29_Witness ==
    /\ remote.primary_key # None
    /\ Len(remote.columns_names) = 2
    /\ obs # ObsCreate0
    /\ Len(db) = 3

\* ---- SpecTables: claims ----

\* a call of get_row_by_key
LookedUp == obs'.op = "get_row_by_key" /\ obs' # obs /\ db' = db


\* C26: after add_rows on a table with a primary key that was dropped before,
\* get_row_by_key returns, for the key of a row the table accepted, exactly
\* that row as it was given, and None for a key of no such row; add_row creates
\* the table when it is missing and stores the row.
C26_InsertLookupRoundTrip ==
    [][/\ (LookedUp /\ obs.op = "add_rows" /\ obs.raised = "none" /\ ~obs.updated
              /\ remote.primary_key # None) =>
              LET matching == {r \in BagToSet(obs.given) : r[1] = obs'.key[1]}
              IN  /\ obs'.raised = "none"
                  /\ IF matching = {} THEN obs'.answer = <<>>
                     ELSE obs'.answer \in {<<r>> : r \in matching}
       /\ (db = NoTable /\ db' # db) =>
              /\ db'.columns = ColumnsOf(get_create_cmd(remote))
              /\ BagCardinality(db'.rows) = 1
              /\ obs'.raised = "none"]_vars

\* the call of add_row for a row of add_rows
RowGiven == run # Idle /\ (run' # run \/ obs' # obs \/ db' # db)

\* C28: a table declared without a primary key accepts every row, also one it
\* holds already: add_row raises nothing and the table holds the row once more
\* than before; get_row_by_key on such a table raises ValueError, returns
\* nothing and leaves the Store as it is.
C28_NoKeyAcceptsIdenticalRows ==
    [][remote.primary_key = None =>
          /\ RowGiven =>
                 /\ obs'.raised = "none"
                 /\ \E row \in PyRows(remote) :
                        /\ obs'.given = obs.given (+) SetToBag({row})
                        /\ \E stored \in BagToSet(db'.rows) :
                               /\ \A i \in DOMAIN row : stored[i].v = python_str(row[i])
                               /\ db'.rows = db.rows (+) SetToBag({stored})
          /\ LookedUp =>
                 /\ obs'.raised = "ValueError"
                 /\ obs'.answer = <<>>
                 /\ db' = db]_vars

\* a table without a primary key holds a row twice, and a key was looked up in it
C28_Witness ==
    /\ remote.primary_key = None
    /\ \E r \in BagToSet(db.rows) : db.rows[r] = 2
    /\ obs.raised = "ValueError"

\* ---- SpecQueries: claims ----

\* the order of two values of a returned row: numbers by size, strings as
\* strings, a number before a string
ValueLess(x, y) ==
    IF x.py = "int" /\ y.py = "int" THEN int_of_text(x.v) < int_of_text(y.v)
    ELSE IF x.py = "str" /\ y.py = "str" THEN TextRank(x.v) < TextRank(y.v)
    ELSE x.py = "int"

\* a value stands in a relation of SQLConditionEnum to another one
ValueHolds(x, condition, y) ==
    CASE condition = "="  -> x = y
      [] condition = "!=" -> x # y
      [] condition = "<"  -> ValueLess(x, y)
      [] condition = "<=" -> ValueLess(x, y) \/ x = y
      [] condition = ">"  -> ValueLess(y, x)
      [] condition = ">=" -> ValueLess(y, x) \/ x = y

\* the place of a column in the rows of table2
PlaceIn2(column_name) == CHOOSE i \in DOMAIN table2.columns_names :
                             table2.columns_names[i] = column_name

\* a row satisfies every condition of the query
Satisfies(row) ==
    \A i \in DOMAIN remote.conditions_list :
        LET c == remote.conditions_list[i]
        IN  ValueHolds(row[PlaceIn2(c[1])], c[2], c[3])

\* how many times a sequence holds a row
TimesIn(rows, row) == Cardinality({i \in DOMAIN rows : rows[i] = row})

\* a sequence of rows is in the ascending order of the columns of order_list
RECURSIVE NotAfter(_, _, _)
NotAfter(order, a, b) ==
    IF order = <<>> THEN TRUE
    ELSE LET j == PlaceIn2(Head(order))
         IN  \/ ValueLess(a[j], b[j])
             \/ a[j] = b[j] /\ NotAfter(Tail(order), a, b)

InitGuardedSyncs == InitGuard \/ InitAllTrades

\* the behaviour is one of a trade sync (the guard alone has no remote account)
OfSync == DOMAIN remote # {}

NextGuardedSyncs ==
    \/ ~OfSync /\ NextGuard
    \/ OfSync /\ NextAllTrades

SpecGuardedSyncs == InitGuardedSyncs /\ [][NextGuardedSyncs]_vars

\* the step is a guarded call of a trade sync, for the pairs or for a batch
GuardedFetch ==
    /\ OfSync /\ run # Idle /\ run.pc \in {"symbols", "fetch"} /\ run' # run
    /\ obs'.ended \in {"running", "raised"}
    /\ ~(run.pc = "symbols" /\ remote.trade_type = "spot")

\* C30: a guarded call invokes the remote operation 3 times at most, sleeps 3
\* times at most and ends, by a return or by an exception; it ends with the
\* RuntimeError only after 3 invocations in a row that failed with a rate-limit
\* error that is not a ban. No trade sync catches the RuntimeError or calls
\* again after it: the sync is left with the error, also the isolated margin
\* sync with its handler of the unknown pair.
C30_GuardBoundedAndFatal ==
    [][/\ (~OfSync /\ outcome = NotCalled /\ outcome' # NotCalled) =>
              /\ outcome'.kind \in {"return", "RuntimeError", "BinanceAPIException"}
              /\ Invocations(outcome') <= 3
              /\ Sleeps(outcome') <= 3
              /\ outcome'.kind = "RuntimeError" =>
                     /\ Invocations(outcome') = 3
                     /\ \A i \in 1..3 : IsPlainRateLimit(script'[i])
       /\ (GuardedFetch /\ obs'.last.kind = "RuntimeError") =>
              /\ run' = Idle
              /\ obs'.ended = "raised"
              /\ db' = db]_vars

\* a guarded call of the isolated margin sync has ended with the RuntimeError and
\* the sync was left
C30_Witness ==
    /\ OfSync
    /\ remote.trade_type = "isolated_margin"
    /\ obs.last.kind = "RuntimeError"
    /\ obs.ended = "raised"
    /\ run = Idle

(***************************************************************************)
(* The sync loops together: a behaviour is one of the trade syncs, of the  *)
(* time-windowed streams, of the page-cursor streams or of the transfers   *)
(* of an isolated symbol                                                   *)
(***************************************************************************)

InitSyncLoops ==
    InitAllTrades \/ InitWindows \/ InitPageCursors \/ InitIsolatedTransfers

NextSyncLoops ==
    \/ "trade_type" \in DOMAIN remote /\ NextAllTrades
    \/ "stream" \in DOMAIN remote /\ NextWindows
    \/ "kind" \in DOMAIN remote /\ NextPageCursors
    \/ "order" \in DOMAIN remote /\ "kind" \notin DOMAIN remote /\ NextIsolatedTransfers

SpecSyncLoops == InitSyncLoops /\ [][NextSyncLoops]_vars

\* the step ends the writing of a fetched page: the run leaves the inserts for
\* the next fetch (or for the next pair of a trade sync)
PageLeft == run # Idle /\ run.pc = "insert" /\ run' # Idle /\ run'.pc # "insert"

\* C31: a sync loop goes on to its next fetch only when every record of the
\* fetched page has been handled, and then the rows it inserted are committed:
\* after a page that was not empty no row is left inserted and uncommitted, and
\* the rows that were pending are in the committed Store.
C31_FetchAfterPageCommitted ==
    [][PageLeft =>
           /\ run.done = Len(run.rows)
           /\ run.done > 0 =>
                  /\ db'.pending = EmptyBag
                  /\ db'.committed = db.committed (+) db.pending]_vars

\* a page-cursor sync is about to fetch its second page, the first one written
\* and committed
C31_Witness ==
    /\ "kind" \in DOMAIN remote
    /\ run # Idle /\ run.pc = "fetch" /\ run.current > 1
    /\ db.committed # EmptyBag
    /\ db.pending = EmptyBag

(***************************************************************************)
(* Claims about pages left by an exception (checked under                  *)
(* SpecIsolatedTransfers)                                                  *)
(***************************************************************************)

\* the step is the commit at the end of a page of transfers
PageCommitted ==
    /\ run # Idle /\ run.op = "update_isolated_symbol_transfers" /\ run.pc = "insert"
    /\ run' # Idle /\ run'.pc = "fetch"

\* C32: the rows of a page that an exception left in its middle (an unrecognised
\* transfer, an insert conflict after earlier rows of the page were inserted
\* without commit) are never committed, also when a later sync on the same manager
\* commits its own pages: the commit at the end of a page makes durable the rows
\* of that page and no other.
C32_AbortedPageNeverDurable ==
    [][PageCommitted =>
           BagCardinality(db'.committed) <= BagCardinality(db.committed) + run.done]_vars

(***************************************************************************)
(* Claims about the steps of the time windows (checked under SpecWindows)  *)
(***************************************************************************)

\* the start_time the run has after the step, read from the run that goes on or
\* from what the run that completed had reached
NextStartTime == IF run' = Idle THEN obs'.reached ELSE run'.start_time

\* C33: when a dividends fetch returns exactly `limit` records, the next
\* start_time is the timestamp of the last record of the returned page plus 1 and
\* is not advanced by the window; when it returns fewer than `limit` records,
\* start_time advances by the window length plus 1 ms.
C33_DividendsFullPageStep ==
    [][(IterationEnded /\ run.stream = "dividend") =>
           IF Len(run.rows) = run.limit
           THEN NextStartTime = run.rows[Len(run.rows)] + 1
           ELSE NextStartTime = run.start_time + run.delta_jump + 1]_vars

\* the queries of the sequence whose [startTime, endTime] holds the millisecond t
Covering(windows, t) ==
    {i \in 1..Len(windows) : windows[i].startTime <= t /\ t <= windows[i].endTime}

\* C34: in update_spot_deposits and update_spot_withdraws the windows requested in
\* a run, taken with both bounds included, are pairwise disjoint and leave no gap:
\* the first starts at the resume point, each other one starts 1 ms after the
\* endTime of the one before, so every millisecond from the resume point on is
\* covered by exactly one request as far as the run has gone, and up to the
\* captured now when the run completes.
C34_ContiguousWindows ==
    [][(run' # Idle /\ run'.op \in {"update_spot_deposits", "update_spot_withdraws"}) =>
           LET windows == run'.windows
           IN  /\ windows # <<>> => windows[1].startTime = obs'.first_start
               /\ \A i \in 1..Len(windows) - 1 :
                      windows[i + 1].startTime = windows[i].endTime + 1
               /\ \A i, j \in 1..Len(windows) :
                      i < j => windows[i].endTime < windows[j].startTime
               /\ windows # <<>> =>
                      \A t \in windows[1].startTime..windows[Len(windows)].endTime :
                          Cardinality(Covering(windows, t)) = 1
               /\ (run'.pc = "insert" /\ run'.start_time + run'.delta_jump + 1
                                             >= run'.now_millistamp) =>
                      \A t \in obs'.first_start..(run'.now_millistamp - 1) :
                          Cardinality(Covering(windows, t)) = 1]_vars

\* a run of deposits or withdrawals is in its second window, and the source holds
\* a record at the endTime of the first and one at the startTime of the second
C34_Witness ==
    /\ run # Idle /\ run.op \in {"update_spot_deposits", "update_spot_withdraws"}
    /\ Len(run.windows) = 2
    /\ run.windows[1].endTime \in remote.times
    /\ run.windows[2].startTime \in remote.times

(***************************************************************************)
(* Claims about the cursors of the page-cursor streams (checked under      *)
(* SpecPages)                                                              *)
(***************************************************************************)

\* C35: for loans, repays and margin interests, every accepted remote record of a
\* Stream Key whose timestamp is above the largest timestamp persisted for that
\* key lies in the range the next run requests (its startTime is at most the
\* timestamp of the record), and no persisted record of the key lies in it.
C35_TimeCursorSkipsNothing ==
    [][(run = Idle /\ run' # Idle) =>
           LET startTime == run'.latest_time + STARTTIME_OFFSET
               persisted == PageLaneRows(Visible(db), run'.kind, run'.isolated_symbol)
           IN  /\ \A rec \in remote.recs[run'.isolated_symbol] :
                      (/\ run'.kind = "interest" \/ rec.confirmed
                       /\ rec.time > MaxTimeOf(persisted)) =>
                          startTime <= rec.time
               /\ \A r \in persisted : r.time < startTime]_vars

(***************************************************************************)
(* The trade sync of a pair against a source that lists a batch in any     *)
(* order (SpecTradeBatches)                                                *)
(***************************************************************************)

\* the guarded fetch of one batch, from fromId = last_trade_id + 1, listed as the
\* source likes; an exception of the guard leaves the operation
fetch_trades_in_any_order ==
    /\ run.op \in TradeOps /\ run.pc = "fetch"
    /\ \E g \in GuardEndings :
        IF g.kind = "return"
        THEN \E new_trades \in TradeAnswers(remote[run.key], from_id(run.last_trade_id),
                                             run.limit) :
                 /\ run' = [run EXCEPT !.rows = new_trades, !.done = 0, !.pc = "insert"]
                 /\ obs' = [obs EXCEPT
                              !.returned[run.key] =
                                  Max({@} \cup {new_trades[i] : i \in DOMAIN new_trades}),
                              !.quiet = TRUE]
        ELSE /\ run' = Idle
             /\ obs' = [obs EXCEPT !.ended = "raised", !.quiet = FALSE]
    /\ UNCHANGED <<db, remote, script, outcome>>

NextTradeBatches ==
    \/ \E l \in TradeLanes, limit \in 1..MaxLimit : update_symbol_trades(l, limit)
    \/ fetch_trades_in_any_order
    \/ insert_trade
    \/ end_of_trade_batch
    \/ \E l \in TradeLanes : new_remote_trade(l)
    \/ interrupt
    \/ process_exit

SpecTradeBatches == InitTrades /\ [][NextTradeBatches]_vars

\* the trade ids the connection reads for a pair in the Store d
PersistedIds(d, l) == {r.id : r \in LaneRows(Visible(d), l)}

\* C36: within one run of the trade sync of a pair, the fromId sent to the source
\* never decreases from one fetch to the next, and after a batch it is 1 + the
\* largest trade id seen so far in the run or already persisted for the pair,
\* whatever order the ids have inside the batch.
C36_InRunIdCursor ==
    [][(run' # Idle /\ run'.op \in TradeOps) =>
           /\ run # Idle => from_id(run'.last_trade_id) >= from_id(run.last_trade_id)
           /\ (run'.pc = "insert" /\ run'.done = Len(run'.rows)) =>
                  from_id(run'.last_trade_id) =
                      1 + Max({-1} \cup {run'.rows[i] : i \in DOMAIN run'.rows}
                                   \cup PersistedIds(db', run'.key))]_vars

\* the trades of a batch listed from the largest id down are inserted, the last
\* one having a smaller id than the first
C36_Witness ==
    /\ run.op \in TradeOps /\ run.pc = "insert"
    /\ run.rows = <<1, 0>> /\ run.done = 2
    /\ run.last_trade_id = 1

(***************************************************************************)
(* Claims about the pages of the page-cursor streams (checked under        *)
(* SpecPages and SpecPageCursors)                                          *)
(***************************************************************************)

\* the step leaves an empty page fetched from the archive for the next fetch
EmptyArchivedPageLeft ==
    /\ run.pc = "insert" /\ run.archived /\ run.rows = <<>>
    /\ run'.pc = "fetch"

StatusStreams == {"loan", "repay"} \cup StatusKinds

\* the account lends under the first lending type only: the source records a
\* purchase or a redemption of any status, one millisecond after the last one of
\* the lane
new_status_record ==
    /\ \E accepted \in BOOLEAN :
        LET type == Head(HistoryTypes(remote.kind))
            k == Cardinality(remote.recs[type]) + 1
        IN  /\ k <= MaxHistoryTime
            /\ remote' = [remote EXCEPT
                            !.recs[type] = @ \cup {[time |-> k * HistoryUnit(remote.kind),
                                                    accepted |-> accepted]}]
    /\ obs' = [obs EXCEPT !.quiet = FALSE]
    /\ UNCHANGED <<db, run, script, outcome>>

InitStatusPages == (InitPages \/ InitHistories) /\ remote.kind \in StatusStreams

NextStatusPages ==
    \/ remote.kind \in PageKinds /\ NextPages
    \/ /\ remote.kind \in HistoryKinds
       /\ \/ update_history
          \/ fetch_history
          \/ insert_history_row
          \/ end_of_history_page
          \/ new_status_record
          \/ interrupt_history
          \/ exit_history

SpecStatusPages == InitStatusPages /\ [][NextStatusPages]_vars

\* the step comes after the last record of a fetched page and is not an exception
\* that reaches the caller nor the end of the process
PageTurned ==
    /\ run # Idle /\ run.pc = "insert" /\ run.done = Len(run.rows)
    /\ run' # run
    /\ run' = Idle => obs'.ended = "completed"

\* the lane and the phase of a run: the lending type at hand, the isolated symbol
\* and the archived flag
LaneAndPhase(r) ==
    IF r.kind \in PageKinds THEN <<r.isolated_symbol, r.archived>> ELSE <<r.types>>

\* C38: in the streams filtered by status (loans, repays, lending purchases and
\* redemptions) a fetched page that holds records goes on to the next page of the
\* same lane whatever their status, also when none is of the accepted status, and
\* a record of accepted status is stored on whatever page it comes; the loop of a
\* lane stops, or leaves the archive, only on a page of no record.
C38_PagingByRawPageSize ==
    [][/\ PageTurned =>
              IF run.rows # <<>>
              THEN /\ run' # Idle /\ run'.pc = "fetch"
                   /\ run'.current = run.current + 1
                   /\ LaneAndPhase(run') = LaneAndPhase(run)
              ELSE run' = Idle \/ (run'.current = 1 /\ LaneAndPhase(run') # LaneAndPhase(run))
       /\ (/\ run # Idle /\ run.pc = "insert" /\ run.done < Len(run.rows)
           /\ run' # Idle /\ run'.done = run.done + 1
           /\ RunAccepts(run.rows[run.done + 1])) =>
              \E r \in IF run.kind \in PageKinds
                       THEN PageLaneRows(Visible(db'), run.kind, run.isolated_symbol)
                       ELSE HistoryLaneRows(Visible(db'), Head(run.types)) :
                  r.time = run.rows[run.done + 1].time]_vars

\* the first page of a lane of lending was full of records of a status that is
\* not accepted, and the record of accepted status of the second page is stored
C38_Witness ==
    /\ run # Idle /\ run.kind \in StatusKinds
    /\ run.current = 2 /\ run.pc = "insert" /\ run.done = 1
    /\ run.rows[1].accepted
    /\ \E r \in HistoryLaneRows(db.pending (+) db.committed, Head(run.types)) :
           r.time = run.rows[1].time
    /\ Cardinality({a \in remote.recs[Head(run.types)] : ~a.accepted}) = PageSize
    /\ Cardinality(remote.recs[Head(run.types)]) = PageSize + 1

(***************************************************************************)
(* The guard over the calls of a sync run, one call per page               *)
(* (SpecGuardedRun)                                                        *)
(***************************************************************************)

\* number of rate-limit sleeps of a run after which the model follows no further
\* call of the run
MaxSleeps == 6

\* the guard is entered with the number of sleeps of the run so far
retry_count_of_run == obs.sleeps

\* `retry_count: int = 0`: no call site passes retry_count, every top-level call
\* takes the default
default_retry_count == 0

\* what the claims read of the runs: the rate-limit sleeps of the calls of the run
\* so far, and how the run before it ended
ObsRun0 == [sleeps |-> 0, ended |-> "none"]

\* the sync run fetches its next page through the guard
guarded_page_call ==
    /\ outcome = NotCalled
    /\ obs.sleeps < MaxSleeps
    /\ \E s \in Scripts :
        /\ script' = s
        /\ outcome' = _call_binance_client(s, default_retry_count)
        /\ obs' = [obs EXCEPT
                     !.sleeps = @ + Sleeps(_call_binance_client(s, default_retry_count))]
    /\ UNCHANGED <<db, remote, run>>

\* the guard returned the page: the run goes on to its next call
page_returned ==
    /\ outcome.kind = "return"
    /\ script' = <<>>
    /\ outcome' = NotCalled
    /\ UNCHANGED <<db, remote, run, obs>>

\* the guard raised: the exception leaves the run, and the next run begins
run_left ==
    /\ outcome.kind \in {"RuntimeError", "BinanceAPIException"}
    /\ script' = <<>>
    /\ outcome' = NotCalled
    /\ obs' = [sleeps |-> 0, ended |-> "raised"]
    /\ UNCHANGED <<db, remote, run>>

\* a run that reached the number of sleeps the model follows ends, and the next
\* run begins
run_over ==
    /\ outcome = NotCalled
    /\ obs.sleeps >= MaxSleeps
    /\ obs' = [sleeps |-> 0, ended |-> "completed"]
    /\ UNCHANGED <<script, outcome, db, remote, run>>

InitGuardedRun ==
    /\ script = <<>>
    /\ outcome = NotCalled
    /\ db = <<>>
    /\ remote = <<>>
    /\ run = <<>>
    /\ obs = ObsRun0

NextGuardedRun == guarded_page_call \/ page_returned \/ run_left \/ run_over

SpecGuardedRun == InitGuardedRun /\ [][NextGuardedRun]_vars

\* C39: the retry counter starts at 0 for every top-level guarded call and is not
\* carried over: whatever number of rate-limit sleeps the earlier calls of the run
\* went through, a call raises the fatal error exactly when its own remote
\* operation fails 3 times in a row with a rate-limit error that is not a ban, and
\* a call that succeeds after k < 3 such failures returns after k sleeps; so the
\* sleeps of a run add up without bound and without fatal error.
C39_RetryBudgetPerCall ==
    Called =>
        /\ outcome.kind = "RuntimeError" <=> RateLimitedFirst(3)
        /\ \A k \in 0..2 :
               (RateLimitedFirst(k) /\ script[k + 1].ok) =>
                   /\ outcome.kind = "return"
                   /\ Sleeps(outcome) = k
                   /\ Invocations(outcome) = k + 1

\* a run that has slept more often than one call may, the call at hand returning
\* after two more sleeps
C39_Witness ==
    /\ Called
    /\ outcome.kind = "return" /\ Sleeps(outcome) = 2
    /\ obs.sleeps > 2 * 3

(***************************************************************************)
(* update_isolated_margin: the transfers of every isolated symbol, then    *)
(* the trades, loans, interests and repays of the symbols that have a      *)
(* transfer in the Store (SpecIsolatedMargin)                              *)
(***************************************************************************)

\* transfers the source holds over all the isolated symbols in the model
MaxTransfers == 2

\* the isolated symbols of the exchange, as margin/isolated/allPairs lists them
IsolatedSymbols == <<"BTCUSDT", "ETHUSDT">>

\* base and quote of a symbol
SymbolParts == [BTCUSDT |-> <<"BTC", "USDT">>, ETHUSDT |-> <<"ETH", "USDT">>]

\* the four syncs that follow the transfers, in the order of their calls
SymbolSyncs ==
    <<"update_isolated_margin_trades", "update_isolated_margin_loans",
      "update_isolated_margin_interests", "update_isolated_margin_repays">>

\* BinanceDataBase.add_isolated_transfer(..., auto_commit=False), the asset of the
\* row kept
add_isolated_transfer_of(d, transfer, transfer_type) ==
    add_row(d, Row("isolated_margin_transfer_table", <<transfer.symbol>>, transfer.time,
                   transfer.time) @@ [type |-> transfer_type, asset |-> transfer.asset],
            FALSE).db

\* the transfers of a sequence inserted one after the other
RECURSIVE InsertTransfers(_, _)
InsertTransfers(d, transfers) ==
    IF transfers = <<>> THEN d
    ELSE InsertTransfers(add_isolated_transfer_of(d, Head(transfers), "IN"), Tail(transfers))

\* the rows of a set in the order of their keys
RECURSIVE ByKey(_)
ByKey(rows) ==
    IF rows = {} THEN <<>>
    ELSE LET first == CHOOSE a \in rows : \A b \in rows : a.id <= b.id
         IN  <<first>> \o ByKey(rows \ {first})

\* BinanceDataBase.get_isolated_transfers(): every row of the transfer table, no
\* condition given
get_isolated_transfers(d) == ByKey(TableRows(d, "isolated_margin_transfer_table"))

\* one turn of `for _, _, _, symbol, token, _ in transfers`: the pair is split at
\* the token, taken for the base when the symbol starts with it and for the quote
\* otherwise
symbol_info_of(symbol, token) ==
    IF token = SymbolParts[symbol][1]
    THEN [asset |-> token, ref_asset |-> SymbolParts[symbol][2], symbol |-> symbol]
    ELSE [asset |-> SymbolParts[symbol][1], ref_asset |-> token, symbol |-> symbol]

\* an empty list is taken for no list: every isolated symbol of the exchange
symbols_or_every_symbol(symbols_info) ==
    IF symbols_info = <<>>
    THEN [i \in DOMAIN IsolatedSymbols |->
              [asset |-> SymbolParts[IsolatedSymbols[i]][1],
               ref_asset |-> SymbolParts[IsolatedSymbols[i]][2],
               symbol |-> IsolatedSymbols[i]]]
    ELSE symbols_info

\* `if symbols_info is None:` of the four syncs: update_isolated_margin passes a
\* list, which is walked as it is, an empty one too
symbols_to_walk(symbols_info) == symbols_info

\* what the claims read of update_isolated_margin: the syncs called for a symbol,
\* in order, as <<sync, symbol>>; the symbols that had a transfer in the Store
\* when the transfers were read; how the last run ended
ObsIsolated0 == [calls |-> <<>>, funded |-> {}, ended |-> "none"]

\* update_isolated_margin, up to the guarded call of margin/isolated/allPairs
update_isolated_margin ==
    /\ run = Idle
    /\ run' = [op |-> "update_isolated_margin", pc |-> "symbols", todo |-> <<>>,
               sync |-> 0, symbols_info |-> <<>>]
    /\ obs' = [calls |-> <<>>, funded |-> {}, ended |-> "running"]
    /\ UNCHANGED <<db, remote, script, outcome>>

\* update_isolated_margin_transfers(): get_margin_symbol_info(isolated=True)
\* through the guard, whose exception leaves the operation
fetch_isolated_symbols ==
    /\ run # Idle /\ run.op = "update_isolated_margin" /\ run.pc = "symbols"
    /\ \E g \in GuardEndings :
        IF g.kind = "return"
        THEN /\ run' = [run EXCEPT !.pc = "transfers", !.todo = IsolatedSymbols]
             /\ obs' = obs
        ELSE /\ run' = Idle
             /\ obs' = [obs EXCEPT !.ended = "raised"]
    /\ UNCHANGED <<db, remote, script, outcome>>

\* update_isolated_symbol_transfers of the next symbol, as a whole: the transfers
\* after the last stored one are inserted page by page, each page committed, up
\* to the first one that is not told as 'IN', whose ValueError leaves the
\* operation with the rows of its page inserted and not committed
sync_symbol_transfers ==
    /\ run # Idle /\ run.op = "update_isolated_margin" /\ run.pc = "transfers"
    /\ run.todo # <<>>
    /\ LET symbol == Head(run.todo)
           latest_time == get_last_isolated_transfer_time(db, symbol)
           new == ByTime({a \in remote.transfers :
                              a.symbol = symbol /\ a.time >= latest_time + 1})
           bad == {i \in DOMAIN new :
                       transfer_type_of(new[i].ends[1], new[i].ends[2]) = "ValueError"}
           upto == IF bad = {} THEN Len(new)
                   ELSE (CHOOSE i \in bad : \A j \in bad : i <= j) - 1
           paged == IF bad = {} THEN Len(new) ELSE PageSize * (upto \div PageSize)
           d1 == InsertTransfers(db, SubSeq(new, 1, paged))
           d2 == IF paged > 0 THEN commit(d1) ELSE d1
           d3 == InsertTransfers(d2, SubSeq(new, paged + 1, upto))
       IN  \E g \in GuardEndings :
               IF g.kind # "return"
               THEN /\ db' = db
                    /\ run' = Idle
                    /\ obs' = [obs EXCEPT !.ended = "raised"]
               ELSE /\ db' = d3
                    /\ IF bad = {}
                       THEN /\ run' = [run EXCEPT !.todo = Tail(@)]
                            /\ obs' = obs
                       ELSE /\ run' = Idle
                            /\ obs' = [obs EXCEPT !.ended = "ValueError"]
    /\ UNCHANGED <<remote, script, outcome>>

\* after the transfers: transfers = self.db.get_isolated_transfers() and one entry
\* of symbols_info for each row
read_isolated_transfers ==
    /\ run # Idle /\ run.op = "update_isolated_margin" /\ run.pc = "transfers"
    /\ run.todo = <<>>
    /\ LET transfers == get_isolated_transfers(db)
           symbols_info == [i \in DOMAIN transfers |->
                               symbol_info_of(transfers[i].scope[1], transfers[i].asset)]
       IN  /\ run' = [run EXCEPT !.pc = "sync", !.sync = 1,
                                 !.symbols_info = symbols_info,
                                 !.todo = symbols_to_walk(symbols_info)]
           /\ obs' = [obs EXCEPT
                        !.funded = {y \in DOMAIN SymbolParts :
                                       \E r \in DOMAIN Visible(db) :
                                           /\ r.tbl = "isolated_margin_transfer_table"
                                           /\ r.scope = <<y>>}]
    /\ UNCHANGED <<db, remote, script, outcome>>

\* one turn of `for symbol_info in symbols_info` of the sync at hand: the sync of
\* the symbol (update_margin_symbol_trades, update_margin_asset_loans,
\* update_margin_interests, update_margin_asset_repay) asks the source, which holds
\* no trade, loan, interest or repay of an isolated symbol in this specification,
\* and stores nothing; an exception of the guard leaves the operation, but for the
\* unknown pair of the trades
sync_symbol ==
    /\ run # Idle /\ run.op = "update_isolated_margin" /\ run.pc = "sync"
    /\ run.todo # <<>>
    /\ \E g \in GuardEndings :
        /\ obs' = [obs EXCEPT
                     !.calls = Append(@, <<SymbolSyncs[run.sync], Head(run.todo).symbol>>),
                     !.ended = IF g.kind = "return"
                                  \/ (run.sync = 1 /\ handles_unknown_pair("isolated_margin", g))
                               THEN @ ELSE "raised"]
        /\ run' = IF g.kind = "return"
                     \/ (run.sync = 1 /\ handles_unknown_pair("isolated_margin", g))
                  THEN [run EXCEPT !.todo = Tail(@)]
                  ELSE Idle
    /\ UNCHANGED <<db, remote, script, outcome>>

\* the sync at hand has walked symbols_info: the next sync, or the end
next_symbol_sync ==
    /\ run # Idle /\ run.op = "update_isolated_margin" /\ run.pc = "sync"
    /\ run.todo = <<>>
    /\ IF run.sync < Len(SymbolSyncs)
       THEN /\ run' = [run EXCEPT !.sync = @ + 1,
                                  !.todo = symbols_to_walk(run.symbols_info)]
            /\ obs' = obs
       ELSE /\ run' = Idle
            /\ obs' = [obs EXCEPT !.ended = "completed"]
    /\ UNCHANGED <<db, remote, script, outcome>>

\* the account moves funds into or out of an isolated symbol: the source records
\* a transfer of the base or of the quote, one millisecond after the last one
new_isolated_transfer ==
    /\ run = Idle
    /\ \E i \in DOMAIN IsolatedSymbols, part \in 1..2,
          ends \in {<<"SPOT", "ISOLATED_MARGIN">>, <<"ISOLATED_MARGIN", "SPOT">>} :
        LET k == Cardinality(remote.transfers) + 1
        IN  /\ k <= MaxTransfers
            /\ remote' = [remote EXCEPT
                            !.transfers = @ \cup {[time |-> k, symbol |-> IsolatedSymbols[i],
                                                   asset |-> SymbolParts[IsolatedSymbols[i]][part],
                                                   ends |-> ends]}]
    /\ UNCHANGED <<db, run, obs, script, outcome>>

\* the process ends and a new one opens the database
exit_isolated_margin ==
    /\ db' = [db EXCEPT !.pending = EmptyBag]
    /\ run' = Idle
    /\ obs' = [obs EXCEPT !.ended = IF run = Idle THEN @ ELSE "killed"]
    /\ UNCHANGED <<remote, script, outcome>>

InitIsolatedMargin ==
    /\ script = <<>>
    /\ outcome = NotCalled
    /\ db = EmptyStore
    /\ remote = [transfers |-> {}]
    /\ run = Idle
    /\ obs = ObsIsolated0

NextIsolatedMargin ==
    \/ update_isolated_margin
    \/ fetch_isolated_symbols
    \/ sync_symbol_transfers
    \/ read_isolated_transfers
    \/ sync_symbol
    \/ next_symbol_sync
    \/ new_isolated_transfer
    \/ exit_isolated_margin

SpecIsolatedMargin == InitIsolatedMargin /\ [][NextIsolatedMargin]_vars

(***************************************************************************)
(* Claims about update_isolated_margin (checked under SpecIsolatedMargin)  *)
(***************************************************************************)

\* the place of a sync in the order of the four
SyncPlace(sync) == CHOOSE k \in DOMAIN SymbolSyncs : SymbolSyncs[k] = sync

\* C40: update_isolated_margin syncs the isolated transfers first; the syncs of
\* trades, loans, interests and repays are then called only for symbols that have
\* a transfer in the Store at that point, so that a symbol without one causes no
\* request of them; and a sync is called for a symbol only after the sync before
\* it was called for every such symbol.
C40_IsolatedMarginScope ==
    /\ (run # Idle /\ run.pc \in {"symbols", "transfers"}) => obs.calls = <<>>
    /\ \A j \in DOMAIN obs.calls :
           /\ obs.calls[j][2] \in obs.funded
           /\ \A i \in 1..j - 1 : SyncPlace(obs.calls[i][1]) <= SyncPlace(obs.calls[j][1])
           /\ SyncPlace(obs.calls[j][1]) > 1 =>
                  \A y \in obs.funded :
                      \E i \in 1..j - 1 :
                          obs.calls[i] = <<SymbolSyncs[SyncPlace(obs.calls[j][1]) - 1], y>>
    /\ (run = Idle /\ obs.ended = "completed") =>
           \A y \in obs.funded, k \in DOMAIN SymbolSyncs :
               \E i \in DOMAIN obs.calls : obs.calls[i] = <<SymbolSyncs[k], y>>

\* a run went to its end, one of the two symbols having a transfer in the Store:
\* the four syncs were called for it and for no other
C40_Witness ==
    /\ run = Idle /\ obs.ended = "completed"
    /\ obs.funded = {"BTCUSDT"}
    /\ Len(obs.calls) = 4

====
